---------------------------- MODULE Spec2Model ----------------------------
(***************************************************************************)
(* Model of the SitePulse insights pipeline: the in-memory fixed-window    *)
(* rate limiter (src/lib/rateLimit.ts), the Similarweb aggregator          *)
(* (src/lib/similarweb.ts) and the query route (api/insights GET).         *)
(***************************************************************************)
EXTENDS FiniteSets, Integers, Sequences, TLC

(***************************************************************************)
(* Bounds of the model.                                                    *)
(***************************************************************************)
MaxLimit == 2      \* limits passed to checkRateLimit range over 0..MaxLimit
MaxWindow == 2     \* windowMs passed to checkRateLimit ranges over 1..MaxWindow
MaxTime == 4       \* the clock of the rate-limiter specification stops here
MaxChecks == 5     \* number of checkRateLimit calls recorded in one behaviour

Keys == {"ipA", "ipB"}

VARIABLES
    store,      \* rateLimit.ts: the module-level Map key -> {count, resetAt}
    now,        \* Date.now()
    limit,      \* the limit the caller passes to checkRateLimit
    windowMs,   \* the windowMs the caller passes to checkRateLimit
    log,        \* history: one record per checkRateLimit call, in call order
    apiKey,     \* process.env.SIMILARWEB_API_KEY
    call,       \* the arguments of the running fetchSimilarwebInsights
    fpc,        \* where that fetchSimilarwebInsights stands
    tasks,      \* its five fetchWithTimeout promises, by field
    insights,   \* the InsightsData it resolved with
    response,   \* the response the route sent last
    client,     \* the address headers the caller's requests carry
    inflight,   \* the GET invocations suspended at their await, by slot
    started,    \* provider requests started by the latest GET step
    admitted,   \* per caller key: the window (by resetAt) the route last
                \* saw and the number of requests it admitted in it
    probe       \* a pure function under test: its argument and its result

rateVars == <<store, now, limit, windowMs, log>>
fetchVars == <<apiKey, call, fpc, tasks, insights>>
routeVars == <<client, inflight, started, admitted>>
vars == <<rateVars, fetchVars, response, routeVars, probe>>

Min(a, b) == IF a < b THEN a ELSE b
Max(a, b) == IF a < b THEN b ELSE a

(***************************************************************************)
(* rateLimit.ts                                                            *)
(***************************************************************************)

\* store.has(key)
Has(st, key) == key \in DOMAIN st

\* store.set(key, entry)
MapSet(st, key, entry) ==
    [k \in (DOMAIN st) \cup {key} |-> IF k = key THEN entry ELSE st[k]]

\* A lost update: the incremented entry is never stored.
checkRateLimit_lostUpdate(st, key, lim, win, t) ==
    IF ~Has(st, key) \/ st[key].resetAt <= t
    THEN [store  |-> MapSet(st, key, [count |-> 1, resetAt |-> t + win]),
          result |-> [allowed |-> TRUE, remaining |-> lim - 1,
                      resetAt |-> t + win]]
    ELSE IF st[key].count >= lim
    THEN [store  |-> st,
          result |-> [allowed |-> FALSE, remaining |-> 0,
                      resetAt |-> st[key].resetAt]]
    ELSE [store  |-> st,
          result |-> [allowed |-> TRUE,
                      remaining |-> lim - (st[key].count + 1),
                      resetAt |-> st[key].resetAt]]

\* The denied branch restarts the window instead of leaving the entry alone.
checkRateLimit_denyTouches(st, key, lim, win, t) ==
    IF ~Has(st, key) \/ st[key].resetAt <= t
    THEN [store  |-> MapSet(st, key, [count |-> 1, resetAt |-> t + win]),
          result |-> [allowed |-> TRUE, remaining |-> lim - 1,
                      resetAt |-> t + win]]
    ELSE IF st[key].count >= lim
    THEN [store  |-> MapSet(st, key, [count |-> st[key].count,
                                      resetAt |-> t + win]),
          result |-> [allowed |-> FALSE, remaining |-> 0,
                      resetAt |-> t + win]]
    ELSE [store  |-> MapSet(st, key, [count |-> st[key].count + 1,
                                      resetAt |-> st[key].resetAt]),
          result |-> [allowed |-> TRUE,
                      remaining |-> lim - (st[key].count + 1),
                      resetAt |-> st[key].resetAt]]

\* The expiry test is strict: an entry is still live at now = resetAt.
checkRateLimit_strictExpiry(st, key, lim, win, t) ==
    IF ~Has(st, key) \/ st[key].resetAt < t
    THEN [store  |-> MapSet(st, key, [count |-> 1, resetAt |-> t + win]),
          result |-> [allowed |-> TRUE, remaining |-> lim - 1,
                      resetAt |-> t + win]]
    ELSE IF st[key].count >= lim
    THEN [store  |-> st,
          result |-> [allowed |-> FALSE, remaining |-> 0,
                      resetAt |-> st[key].resetAt]]
    ELSE [store  |-> MapSet(st, key, [count |-> st[key].count + 1,
                                      resetAt |-> st[key].resetAt]),
          result |-> [allowed |-> TRUE,
                      remaining |-> lim - (st[key].count + 1),
                      resetAt |-> st[key].resetAt]]

\* checkRateLimit(key, limit, windowMs) run on store st at Date.now() = t:
\* the store it leaves and the RateLimitResult it returns.
checkRateLimit(st, key, lim, win, t) ==
    IF ~Has(st, key) \/ st[key].resetAt <= t
    THEN [store  |-> MapSet(st, key, [count |-> 1, resetAt |-> t + win]),
          result |-> [allowed |-> TRUE, remaining |-> lim - 1,
                      resetAt |-> t + win]]
    ELSE IF st[key].count >= lim
    THEN [store  |-> st,
          result |-> [allowed |-> FALSE, remaining |-> 0,
                      resetAt |-> st[key].resetAt]]
    ELSE [store  |-> MapSet(st, key, [count |-> st[key].count + 1,
                                      resetAt |-> st[key].resetAt]),
          result |-> [allowed |-> TRUE,
                      remaining |-> lim - (st[key].count + 1),
                      resetAt |-> st[key].resetAt]]

\* A sweep that keeps the entries whose window ends right now.
cleanupRateLimit_strict(st, t) ==
    [k \in {j \in DOMAIN st : ~(st[j].resetAt < t)} |-> st[k]]

\* cleanupRateLimit() run on store st at Date.now() = t.
cleanupRateLimit(st, t) ==
    [k \in {j \in DOMAIN st : ~(st[j].resetAt <= t)} |-> st[k]]

(***************************************************************************)
(* JSON values as the provider sends them.  An object is the sequence of   *)
(* its members in insertion order; numbers are fixed-point, in units of    *)
(* 1 / Unit, so that a share of 0.55 is the integer 55 * (Unit \div 100).  *)
(***************************************************************************)
Unit == 100 * 100

Undefined == [t |-> "undefined"]
JNull == [t |-> "null"]
JNum(n) == [t |-> "num", n |-> n]
JStr(s) == [t |-> "str", s |-> s]
JArr(a) == [t |-> "arr", a |-> a]
JObj(m) == [t |-> "obj", m |-> m]
Member(k, v) == [k |-> k, v |-> v]

\* JavaScript truthiness (the `!raw`, `value &&`, `!label` tests).
Truthy(v) ==
    CASE v.t = "undefined" -> FALSE
      [] v.t = "null" -> FALSE
      [] v.t = "num" -> v.n # 0
      [] v.t = "str" -> v.s # ""
      [] OTHER -> TRUE

\* typeof v === "object" (null excluded by the truthiness tests around it)
IsObjectType(v) == v.t \in {"arr", "obj", "null"}

\* (v as Record<string, unknown>)[key], for the keys the parser asks for:
\* an array has none of them.
Get(v, key) ==
    IF v.t = "obj" /\ \E i \in 1..Len(v.m) : v.m[i].k = key
    THEN v.m[CHOOSE i \in 1..Len(v.m) : v.m[i].k = key].v
    ELSE Undefined

(***************************************************************************)
(* similarweb.ts: the response parser                                      *)
(***************************************************************************)

\* The wrapper under the key is probed ahead of the payload's data member.
extractArray_wrapperFirst(raw, key) ==
    IF ~Truthy(raw) THEN JNull
    ELSE IF raw.t = "arr" THEN raw
    ELSE IF ~IsObjectType(raw) THEN JNull
    ELSE LET value == Get(raw, key)
             nestedData == Get(raw, "data")
             nestedValue == Get(nestedData, key)
             nested == Get(value, "data")
         IN IF value.t = "arr" THEN value
            ELSE IF /\ Truthy(value) /\ IsObjectType(value)
                    /\ nested.t = "arr"
                 THEN nested
            ELSE IF /\ Truthy(nestedData) /\ IsObjectType(nestedData)
                    /\ nestedValue.t = "arr"
                 THEN nestedValue
            ELSE JNull

\* extractArray(raw, key): the array found, or JNull for null.
extractArray(raw, key) ==
    IF ~Truthy(raw) THEN JNull
    ELSE IF raw.t = "arr" THEN raw
    ELSE IF ~IsObjectType(raw) THEN JNull
    ELSE LET value == Get(raw, key)
             nestedData == Get(raw, "data")
             nestedValue == Get(nestedData, key)
             nested == Get(value, "data")
         IN IF value.t = "arr" THEN value
            ELSE IF /\ Truthy(nestedData) /\ IsObjectType(nestedData)
                    /\ nestedValue.t = "arr"
                 THEN nestedValue
            ELSE IF /\ Truthy(value) /\ IsObjectType(value)
                    /\ nested.t = "arr"
                 THEN nested
            ELSE JNull

\* pointSchema: { date: string, value: number | null }
pointSchema(e) ==
    /\ e.t = "obj"
    /\ Get(e, "date").t = "str"
    /\ Get(e, "value").t \in {"num", "null"}

NumericPoint(e) == Get(e, "value").t = "num"
ToPoint(e) == [date |-> Get(e, "date").s, value |-> Get(e, "value").n]

\* parsed.data.filter(value is a number).map(point => ({date, value}))
numericPoints(elems) ==
    LET kept == SelectSeq(elems, NumericPoint)
    IN [i \in 1..Len(kept) |-> ToPoint(kept[i])]

\* The points one candidate key yields: <<>> when the key is skipped.
seriesCandidate(raw, key) ==
    LET candidate == extractArray(raw, key)
    IN IF candidate.t # "arr" THEN <<>>
       ELSE IF \A i \in 1..Len(candidate.a) : pointSchema(candidate.a[i])
       THEN numericPoints(candidate.a)
       ELSE <<>>

NotFound == [found |-> FALSE, items |-> <<>>]
Found(items) == [found |-> TRUE, items |-> items]

RECURSIVE parseSeriesFrom(_, _)
parseSeriesFrom(raw, keyList) ==
    IF keyList = <<>> THEN NotFound
    ELSE LET points == seriesCandidate(raw, Head(keyList))
         IN IF Len(points) > 0 THEN Found(points)
            ELSE parseSeriesFrom(raw, Tail(keyList))

\* The caller's last key is tried ahead of the others.
parseSeries_lastKeyFirst(raw, keys) ==
    parseSeriesFrom(raw, IF Len(keys) > 0
                         THEN <<keys[Len(keys)]>> \o SubSeq(keys, 1, Len(keys) - 1)
                         ELSE <<"data">>)

\* parseSeries(raw, keys): TimeseriesPoint[] | null
parseSeries(raw, keys) ==
    parseSeriesFrom(raw, IF Len(keys) > 0 THEN keys ELSE <<"data">>)

\* Every value is taken for a percentage.
normalizeShare_always(value) == value \div 100

\* normalizeShare(value)
normalizeShare(value) == IF value > Unit THEN value \div 100 ELSE value

OptionalOf(v, type) == v.t \in {"undefined", type}

\* channelItemSchema: every member optional, typed when present
channelItemSchema(e) ==
    /\ e.t = "obj"
    /\ OptionalOf(Get(e, "channel"), "str")
    /\ OptionalOf(Get(e, "source"), "str")
    /\ OptionalOf(Get(e, "name"), "str")
    /\ OptionalOf(Get(e, "share"), "num")
    /\ OptionalOf(Get(e, "value"), "num")

\* item.channel || item.source || item.name
ItemLabel(e) ==
    IF Truthy(Get(e, "channel")) THEN Get(e, "channel")
    ELSE IF Truthy(Get(e, "source")) THEN Get(e, "source")
    ELSE Get(e, "name")

\* item.share ?? item.value
ItemShare(e) ==
    IF Get(e, "share").t # "undefined" THEN Get(e, "share") ELSE Get(e, "value")

ItemKept(e) == Truthy(ItemLabel(e)) /\ ItemShare(e).t = "num"
ItemToChannel(e) ==
    [channel |-> ItemLabel(e).s, share |-> normalizeShare(ItemShare(e).n)]

\* parsed.data.map(item => label and share, or null).filter(Boolean)
itemChannels(items) ==
    LET kept == SelectSeq(items, ItemKept)
    IN [i \in 1..Len(kept) |-> ItemToChannel(kept[i])]

EntryKept(m) == m.v.t = "num"
EntryToChannel(m) == [channel |-> m.k, share |-> normalizeShare(m.v.n)]

\* Object.entries(data).map(numeric entry, or null).filter(Boolean)
entryChannels(members) ==
    LET kept == SelectSeq(members, EntryKept)
    IN [i \in 1..Len(kept) |-> EntryToChannel(kept[i])]

\* parseChannels(raw): ChannelShare[] | null
parseChannels(raw) ==
    IF ~Truthy(raw) \/ ~IsObjectType(raw) THEN NotFound
    ELSE LET inner == Get(raw, "data")
             data == IF inner.t \in {"undefined", "null"} THEN raw ELSE inner
         IN IF data.t = "arr"
            THEN IF \A i \in 1..Len(data.a) : channelItemSchema(data.a[i])
                 THEN LET channels == itemChannels(data.a)
                      IN IF Len(channels) > 0 THEN Found(channels) ELSE NotFound
                 ELSE NotFound
            ELSE IF Truthy(data) /\ IsObjectType(data)
            THEN LET entries == entryChannels(data.m)
                 IN IF Len(entries) > 0 THEN Found(entries) ELSE NotFound
            ELSE NotFound

(***************************************************************************)
(* similarweb.ts: latest value, channel order, the fold of the outcomes    *)
(***************************************************************************)

\* The characters of the date labels the model's payloads use, as ranks in
\* collation order ('-' sorts before the digits).
Hy == 0 - 1
CharsOf(label) ==
    CASE label = "2024-01" -> <<2, 0, 2, 4, Hy, 0, 1>>
      [] label = "2024-02" -> <<2, 0, 2, 4, Hy, 0, 2>>
      [] label = "2024-03" -> <<2, 0, 2, 4, Hy, 0, 3>>
      [] label = "2024-03-09" -> <<2, 0, 2, 4, Hy, 0, 3, Hy, 0, 9>>
      [] label = "2024-03-10" -> <<2, 0, 2, 4, Hy, 0, 3, Hy, 1, 0>>
      [] OTHER -> <<>>

RECURSIVE LexCompare(_, _)
\* a.localeCompare(b) on character sequences: -1, 0 or 1
LexCompare(u, v) ==
    IF u = <<>> /\ v = <<>> THEN 0
    ELSE IF u = <<>> THEN 0 - 1
    ELSE IF v = <<>> THEN 1
    ELSE IF Head(u) < Head(v) THEN 0 - 1
    ELSE IF Head(u) > Head(v) THEN 1
    ELSE LexCompare(Tail(u), Tail(v))

localeCompare(a, b) == LexCompare(CharsOf(a), CharsOf(b))

\* Insert x into the sorted sequence after every element that does not
\* compare greater (Array.prototype.sort is stable).
RECURSIVE InsertByDate(_, _)
InsertByDate(sorted, x) ==
    IF sorted = <<>> THEN <<x>>
    ELSE IF localeCompare(Head(sorted).date, x.date) > 0
    THEN <<x>> \o sorted
    ELSE <<Head(sorted)>> \o InsertByDate(Tail(sorted), x)

RECURSIVE SortByDate(_)
\* [...series].sort((a, b) => a.date.localeCompare(b.date))
SortByDate(series) ==
    IF series = <<>> THEN <<>>
    ELSE InsertByDate(SortByDate(SubSeq(series, 1, Len(series) - 1)),
                      series[Len(series)])

\* The value of the last point of the array as it came.
latestValue_arrayOrder(series) ==
    IF Len(series) = 0 THEN Undefined
    ELSE JNum(series[Len(series)].value)

\* latestValue(series): number | undefined
latestValue(series) ==
    IF Len(series) = 0 THEN Undefined
    ELSE LET sorted == SortByDate(series)
         IN JNum(sorted[Len(sorted)].value)

RECURSIVE InsertByShare(_, _)
InsertByShare(sorted, x) ==
    IF sorted = <<>> THEN <<x>>
    ELSE IF x.share - Head(sorted).share > 0
    THEN <<x>> \o sorted
    ELSE <<Head(sorted)>> \o InsertByShare(Tail(sorted), x)

RECURSIVE SortByShare(_)
\* parsed.sort((a, b) => b.share - a.share)
SortByShare(channels) ==
    IF channels = <<>> THEN <<>>
    ELSE InsertByShare(SortByShare(SubSeq(channels, 1, Len(channels) - 1)),
                       channels[Len(channels)])

\* Object.keys(tasks)
TaskKeys == <<"visits", "bounceRate", "pagesPerVisit", "avgDuration", "channels">>
Fields == {TaskKeys[i] : i \in 1..Len(TaskKeys)}
SeriesFields == Fields \ {"channels"}

seriesKeyMap(key) ==
    CASE key = "visits" -> <<"visits", "data">>
      [] key = "bounceRate" -> <<"bounce_rate", "bounceRate", "data">>
      [] key = "pagesPerVisit" -> <<"pages_per_visit", "pagesPerVisit", "data">>
      [] key = "avgDuration" -> <<"average_visit_duration", "avgDuration", "data">>

\* `${key} data unavailable.`
NoteOf(key) ==
    CASE key = "visits" -> "visits data unavailable."
      [] key = "bounceRate" -> "bounceRate data unavailable."
      [] key = "pagesPerVisit" -> "pagesPerVisit data unavailable."
      [] key = "avgDuration" -> "avgDuration data unavailable."
      [] key = "channels" -> "channels data unavailable."

EmptyFold ==
    [notes |-> <<>>,
     timeseries |-> [k \in SeriesFields |-> <<>>],
     channels |-> <<>>]

\* A fulfilled result the parser finds nothing in is passed over in
\* silence.
foldResult_silentMiss(acc, key, result) ==
    IF result.status = "rejected"
    THEN [acc EXCEPT !.notes = Append(@, NoteOf(key))]
    ELSE IF key = "channels"
    THEN LET parsed == parseChannels(result.value)
         IN IF ~parsed.found
            THEN acc
            ELSE [acc EXCEPT !.channels = SortByShare(parsed.items)]
    ELSE LET parsedSeries == parseSeries(result.value, seriesKeyMap(key))
         IN IF ~parsedSeries.found
            THEN acc
            ELSE [acc EXCEPT !.timeseries[key] = parsedSeries.items]

\* One turn of results.forEach: the settled result of field `key` folded
\* into the accumulated notes, timeseries and channels.
foldResult(acc, key, result) ==
    IF result.status = "rejected"
    THEN [acc EXCEPT !.notes = Append(@, NoteOf(key))]
    ELSE IF key = "channels"
    THEN LET parsed == parseChannels(result.value)
         IN IF ~parsed.found
            THEN [acc EXCEPT !.notes = Append(@, "channels data unavailable.")]
            ELSE [acc EXCEPT !.channels = SortByShare(parsed.items)]
    ELSE LET parsedSeries == parseSeries(result.value, seriesKeyMap(key))
         IN IF ~parsedSeries.found
            THEN [acc EXCEPT !.notes = Append(@, NoteOf(key))]
            ELSE [acc EXCEPT !.timeseries[key] = parsedSeries.items]

RECURSIVE foldResults(_, _)
\* results.forEach(...) over the first n results, in index order
foldResults(results, n) ==
    IF n = 0 THEN EmptyFold
    ELSE foldResult(foldResults(results, n - 1), TaskKeys[n], results[TaskKeys[n]])

\* meta.partial dropped the notes disjunct.
metaPartial_onlyEmpty(notes, timeseries, channels) ==
    /\ Len(timeseries["visits"]) = 0
    /\ Len(timeseries["bounceRate"]) = 0
    /\ Len(timeseries["pagesPerVisit"]) = 0
    /\ Len(timeseries["avgDuration"]) = 0
    /\ Len(channels) = 0

\* meta.partial
metaPartial(notes, timeseries, channels) ==
    \/ Len(notes) > 0
    \/ /\ Len(timeseries["visits"]) = 0
       /\ Len(timeseries["bounceRate"]) = 0
       /\ Len(timeseries["pagesPerVisit"]) = 0
       /\ Len(timeseries["avgDuration"]) = 0
       /\ Len(channels) = 0

\* The InsightsData built from the five settled results (after fan-in).
buildInsights(results) ==
    LET acc == foldResults(results, Len(TaskKeys))
    IN [summary |->
          [latestVisits |-> latestValue(acc.timeseries["visits"]),
           latestBounceRate |-> latestValue(acc.timeseries["bounceRate"]),
           latestPagesPerVisit |-> latestValue(acc.timeseries["pagesPerVisit"]),
           latestAvgDurationSeconds |-> latestValue(acc.timeseries["avgDuration"])],
        timeseries |-> acc.timeseries,
        channels |-> acc.channels,
        meta |-> [partial |-> metaPartial(acc.notes, acc.timeseries, acc.channels),
                  notes |-> acc.notes]]

(***************************************************************************)
(* similarweb.ts: fetchWithTimeout and the fan-out / fan-in                *)
(***************************************************************************)
REQUEST_TIMEOUT_MS == 10000

InsightModes == {"monthly", "last28"}

\* process.env.SIMILARWEB_API_KEY: unset, empty or a key
Unset == "<unset>"
EnvValues == {Unset, "", "sw-key"}

NoCall == [domain |-> "", mode |-> ""]
NoInsights == [none |-> TRUE]
NoResponse == [status |-> 0]
NoProbe == [fn |-> "none"]
NoTasks == [f \in Fields |-> [st |-> "none", timer |-> "none", deadline |-> 0,
                              value |-> Undefined]]

\* Only an unset variable counts as missing; an empty key is sent along.
keyConfigured_emptyAccepted(key) == key # Unset

\* buildQuery: throws when the key is missing
keyConfigured(key) == key # Unset /\ key # ""

\* fetchWithTimeout up to its first await: the timer armed, fetch() issued
startFetch(t) ==
    [st |-> "fetching", timer |-> "armed", deadline |-> t + REQUEST_TIMEOUT_MS,
     value |-> Undefined]

\* One AbortController shared by the five requests.
abort_shared(ts, f) ==
    [g \in Fields |->
        IF g = f THEN [ts[g] EXCEPT !.st = "rejected", !.timer = "fired"]
        ELSE IF ts[g].st \in {"fetching", "reading"}
        THEN [ts[g] EXCEPT !.st = "rejected", !.timer = "cleared"]
        ELSE ts[g]]

\* The timer callback of request f: controller.abort() rejects the pending
\* fetch of f, whose finally block then runs.
abort(ts, f) ==
    [ts EXCEPT ![f] = [@ EXCEPT !.st = "rejected", !.timer = "fired"]]

IsSettled(task) == task.st \in {"fulfilled", "rejected"}

\* Promise.race: the first settled promise decides.
allSettled_race(ts) ==
    [done |-> \E f \in Fields : IsSettled(ts[f]), throws |-> FALSE]

\* Promise.all: the first rejection rejects the join.
allSettled_all(ts) ==
    [done |-> \/ \A f \in Fields : IsSettled(ts[f])
              \/ \E f \in Fields : ts[f].st = "rejected",
     throws |-> \E f \in Fields : ts[f].st = "rejected"]

\* await Promise.allSettled(Object.values(tasks)): whether the join is
\* over, and whether it throws.
allSettled(ts) ==
    [done |-> \A f \in Fields : IsSettled(ts[f]), throws |-> FALSE]

\* The PromiseSettledResult of each task.
settledResults(ts) ==
    [f \in Fields |-> [status |-> IF ts[f].st = "rejected" THEN "rejected"
                                  ELSE "fulfilled",
                       value |-> ts[f].value]]

(***************************************************************************)
(* The payloads the model's provider answers with.                         *)
(***************************************************************************)
Point(date, value) ==
    JObj(<<Member("date", JStr(date)), Member("value", value)>>)

\* { data: [ {2024-02, 10}, {2024-01, 5}, {2024-03, null} ] }
SeriesPayload ==
    JObj(<<Member("data", JArr(<<Point("2024-02", JNum(10 * Unit)),
                                 Point("2024-01", JNum(5 * Unit)),
                                 Point("2024-03", JNull)>>))>>)

\* { data: { bounce_rate: [ {2024-01, 42} ] } }
NestedPayload ==
    JObj(<<Member("data",
           JObj(<<Member("bounce_rate",
                  JArr(<<Point("2024-01", JNum(42 * Unit))>>))>>))>>)

\* { direct: 0.2, search: 55, note: "n/a" }
ChannelPayload ==
    JObj(<<Member("direct", JNum(20 * (Unit \div 100))),
           Member("search", JNum(55 * Unit)),
           Member("note", JStr("n/a"))>>)

Payloads == {SeriesPayload, NestedPayload, ChannelPayload, JNull}

(***************************************************************************)
(* api/insights GET: the query route                                       *)
(***************************************************************************)
RATE_LIMIT == 20
RATE_WINDOW_MS == 10 * 60 * 1000

MaxInFlight == 2       \* GET invocations that may be suspended at once
MaxRouteTicks == 3     \* the clock of the route specification makes that many steps
RouteStep == RATE_WINDOW_MS \div 2

Slots == 1..MaxInFlight

\* A query parameter or header that the request does not carry.
Absent == "<absent>"

\* The address headers of a request: x-forwarded-for as the list of its
\* comma-separated parts, each trimmed (<<>> for an empty header value), and
\* x-real-ip.
NoHeaders == [forwarded |-> Absent, realIp |-> Absent]
ClientHeaders ==
    {NoHeaders,
     [forwarded |-> <<"203.0.113.7", "10.0.0.1">>, realIp |-> Absent],
     [forwarded |-> <<"">>, realIp |-> "198.51.100.9"],
     [forwarded |-> <<>>, realIp |-> "198.51.100.9"]}
ClientKeys == {"unknown", "203.0.113.7", "198.51.100.9"}

\* getClientIp(request)
getClientIp(forwarded, realIp) ==
    IF forwarded # Absent /\ forwarded # <<>>
    THEN IF forwarded[1] # "" THEN forwarded[1] ELSE "unknown"
    ELSE IF realIp # Absent /\ realIp # ""
    THEN realIp
    ELSE "unknown"

\* querySchema.safeParse(params): url a non-empty string, mode optional with
\* default "monthly"
querySchema(url, mode) ==
    IF url = Absent \/ url = "" \/ (mode # Absent /\ mode \notin InsightModes)
    THEN [success |-> FALSE, url |-> "", mode |-> ""]
    ELSE [success |-> TRUE, url |-> url,
          mode |-> IF mode = Absent THEN "monthly" ELSE mode]

UrlParams == {"", "https://www.Example.com/path"}
ModeParams == {Absent, "last28", "weekly"}

\* What normalizeDomain makes of the url parameter: a domain or a reason.
NormalizeResults ==
    {[ok |-> TRUE, domain |-> "example.com", error |-> ""],
     [ok |-> FALSE, domain |-> "", error |-> "Please enter a public domain name."]}

\* Math.max(1, Math.ceil((rate.resetAt - Date.now()) / 1000))
retryAfter(resetAt, t) == Max(1, (resetAt - t + 999) \div 1000)

Idle == [pc |-> "idle", domain |-> "", mode |-> "", outcome |-> ""]
NoRequests == [s \in Slots |-> Idle]
NoneAdmitted == [k \in ClientKeys |-> [resetAt |-> 0, n |-> 0]]

\* The admissions the route has seen for a key, after one more
\* RateLimitResult for it.
Observe(seen, result) ==
    IF ~result.allowed THEN seen
    ELSE IF result.resetAt = seen.resetAt
    THEN [seen EXCEPT !.n = @ + 1]
    ELSE [resetAt |-> result.resetAt, n |-> 1]

\* How the five provider requests of a suspended GET may have settled.
SettledVectors ==
    {[f \in Fields |->
        IF f \in failed
        THEN [status |-> "rejected", value |-> Undefined]
        ELSE [status |-> "fulfilled",
              value |-> IF f = "channels" THEN ChannelPayload
                        ELSE SeriesPayload]] :
     failed \in {{}, {"visits"}, Fields}}

(***************************************************************************)
(* The rate limiter driven by an arbitrary caller: any key, any time.      *)
(***************************************************************************)
InitRate ==
    /\ store = <<>>
    /\ now = 0
    /\ limit \in 0..MaxLimit
    /\ windowMs \in 1..MaxWindow
    /\ log = <<>>
    /\ apiKey = "sw-key"
    /\ call = NoCall
    /\ fpc = "idle"
    /\ tasks = NoTasks
    /\ insights = NoInsights
    /\ response = NoResponse
    /\ client = NoHeaders
    /\ inflight = NoRequests
    /\ started = 0
    /\ admitted = NoneAdmitted
    /\ probe = NoProbe

Check(key) ==
    /\ Len(log) < MaxChecks
    /\ LET r == checkRateLimit(store, key, limit, windowMs, now)
       IN /\ store' = r.store
          /\ log' = Append(log, [key |-> key, t |-> now,
                                 allowed |-> r.result.allowed,
                                 remaining |-> r.result.remaining,
                                 resetAt |-> r.result.resetAt])
    /\ UNCHANGED <<now, limit, windowMs, fetchVars, response, routeVars, probe>>

Sweep ==
    /\ store' = cleanupRateLimit(store, now)
    /\ store' # store
    /\ UNCHANGED <<now, limit, windowMs, log, fetchVars, response, routeVars, probe>>

Tick ==
    /\ now < MaxTime
    /\ now' = now + 1
    /\ UNCHANGED <<store, limit, windowMs, log, fetchVars, response, routeVars, probe>>

NextRate ==
    \/ \E key \in Keys : Check(key)
    \/ Sweep
    \/ Tick

SpecRate == InitRate /\ [][NextRate]_vars

(***************************************************************************)
(* The route's responses (api/insights GET).                               *)
(***************************************************************************)
\* NextResponse.json({ error }, { status })
errorResponse(status, error) == [status |-> status, error |-> error]

\* The 200 response built from the resolved InsightsData.
insightsResponse(domain, mode, data) ==
    [status |-> 200,
     domain |-> domain,
     mode |-> mode,
     summary |-> data.summary,
     timeseries |-> data.timeseries,
     channels |-> data.channels,
     meta |-> [provider |-> "Similarweb",
               partial |-> data.meta.partial,
               notes |-> data.meta.notes]]

\* A result without any data is reported as a failure of the call.
routeResult_emptyIsFailure(domain, mode, outcome, data) ==
    IF outcome = "threw"
    THEN errorResponse(500, "Unable to fetch Similarweb data.")
    ELSE IF /\ \A k \in DOMAIN data.timeseries : Len(data.timeseries[k]) = 0
            /\ Len(data.channels) = 0
    THEN errorResponse(500, "Unable to fetch Similarweb data.")
    ELSE insightsResponse(domain, mode, data)

\* The try / catch around `await fetchSimilarwebInsights(...)`.
routeResult(domain, mode, outcome, data) ==
    IF outcome = "threw"
    THEN errorResponse(500, "Unable to fetch Similarweb data.")
    ELSE insightsResponse(domain, mode, data)

(***************************************************************************)
(* One admitted request: fetchSimilarwebInsights with its five provider    *)
(* requests in flight, then the route's response.                          *)
(***************************************************************************)
MaxFetchTicks == 3     \* the clock of this specification makes that many steps
FetchStep == REQUEST_TIMEOUT_MS \div 2

InitFetch ==
    /\ store = <<>>
    /\ now = 0
    /\ limit = 0
    /\ windowMs = 1
    /\ log = <<>>
    /\ apiKey \in EnvValues
    /\ call = NoCall
    /\ fpc = "idle"
    /\ tasks = NoTasks
    /\ insights = NoInsights
    /\ response = NoResponse
    /\ client = NoHeaders
    /\ inflight = NoRequests
    /\ started = 0
    /\ admitted = NoneAdmitted
    /\ probe = NoProbe

\* fetchSimilarwebInsights(domain, mode) up to `await Promise.allSettled`.
FanOut(domain, mode) ==
    /\ fpc = "idle"
    /\ call' = [domain |-> domain, mode |-> mode]
    /\ IF ~keyConfigured(apiKey)
       THEN /\ fpc' = "threw"
            /\ UNCHANGED tasks
       ELSE /\ fpc' = "awaiting"
            /\ tasks' = [f \in Fields |-> startFetch(now)]
    /\ UNCHANGED <<rateVars, apiKey, insights, response, routeVars, probe>>

\* The provider answers request f with a 2xx status line: response.json()
\* is called and returned without being awaited, so the finally block
\* clears the timer while the body is still being read.
RespondOk(f) ==
    /\ fpc = "awaiting"
    /\ tasks[f].st = "fetching"
    /\ tasks' = [tasks EXCEPT ![f] = [@ EXCEPT !.st = "reading",
                                                 !.timer = "cleared"]]
    /\ UNCHANGED <<rateVars, apiKey, call, fpc, insights, response, routeVars, probe>>

\* The provider answers request f with a non-2xx status (the throw), or
\* fetch() rejects on a network error.
RespondError(f) ==
    /\ fpc = "awaiting"
    /\ tasks[f].st = "fetching"
    /\ tasks' = [tasks EXCEPT ![f] = [@ EXCEPT !.st = "rejected",
                                                 !.timer = "cleared"]]
    /\ UNCHANGED <<rateVars, apiKey, call, fpc, insights, response, routeVars, probe>>

\* The body of request f arrives and parses as JSON value p.
BodyDone(f, p) ==
    /\ fpc = "awaiting"
    /\ tasks[f].st = "reading"
    /\ tasks' = [tasks EXCEPT ![f] = [@ EXCEPT !.st = "fulfilled", !.value = p]]
    /\ UNCHANGED <<rateVars, apiKey, call, fpc, insights, response, routeVars, probe>>

\* The body of request f breaks off or is not JSON.
BodyFails(f) ==
    /\ fpc = "awaiting"
    /\ tasks[f].st = "reading"
    /\ tasks' = [tasks EXCEPT ![f] = [@ EXCEPT !.st = "rejected"]]
    /\ UNCHANGED <<rateVars, apiKey, call, fpc, insights, response, routeVars, probe>>

\* setTimeout(() => controller.abort(), REQUEST_TIMEOUT_MS) of request f
TimerFires(f) ==
    /\ fpc = "awaiting"
    /\ tasks[f].timer = "armed"
    /\ now >= tasks[f].deadline
    /\ tasks' = abort(tasks, f)
    /\ UNCHANGED <<rateVars, apiKey, call, fpc, insights, response, routeVars, probe>>

FetchTick ==
    /\ fpc = "awaiting"
    /\ now < MaxFetchTicks * FetchStep
    /\ now' = now + FetchStep
    /\ UNCHANGED <<store, limit, windowMs, log, fetchVars, response, routeVars, probe>>

\* The continuation of `await Promise.allSettled(...)`, to the return.
FanIn ==
    /\ fpc = "awaiting"
    /\ allSettled(tasks).done
    /\ IF allSettled(tasks).throws
       THEN /\ fpc' = "threw"
            /\ UNCHANGED insights
       ELSE /\ fpc' = "returned"
            /\ insights' = buildInsights(settledResults(tasks))
    /\ UNCHANGED <<rateVars, apiKey, call, tasks, response, routeVars, probe>>

\* The route resumes from `await fetchSimilarwebInsights(...)`.
Respond ==
    /\ fpc \in {"returned", "threw"}
    /\ response = NoResponse
    /\ response' = routeResult(call.domain, call.mode, fpc, insights)
    /\ UNCHANGED <<rateVars, fetchVars, routeVars, probe>>

NextFetch ==
    \/ \E mode \in InsightModes : FanOut("example.com", mode)
    \/ \E f \in Fields : RespondOk(f)
    \/ \E f \in Fields : RespondError(f)
    \/ \E f \in Fields : \E p \in Payloads : BodyDone(f, p)
    \/ \E f \in Fields : BodyFails(f)
    \/ \E f \in Fields : TimerFires(f)
    \/ FetchTick
    \/ FanIn
    \/ Respond

SpecFetch == InitFetch /\ [][NextFetch]_vars

(***************************************************************************)
(* The query route under overlapping requests: a GET runs from its entry   *)
(* to `await fetchSimilarwebInsights(...)` without yielding, and resumes   *)
(* when the aggregator has settled.                                        *)
(***************************************************************************)
InitRoute ==
    /\ store = <<>>
    /\ now = 0
    /\ limit = RATE_LIMIT
    /\ windowMs = RATE_WINDOW_MS
    /\ log = <<>>
    /\ apiKey \in EnvValues
    /\ call = NoCall
    /\ fpc = "idle"
    /\ tasks = NoTasks
    /\ insights = NoInsights
    /\ response = NoResponse
    /\ client \in ClientHeaders
    /\ inflight = NoRequests
    /\ started = 0
    /\ admitted = NoneAdmitted
    /\ probe = NoProbe

\* The rate governor runs first, ahead of the validation of the query.
Receive_rateFirst(s, url, mode, normalized) ==
    /\ inflight[s].pc = "idle"
    /\ LET parsed == querySchema(url, mode)
           ip == getClientIp(client.forwarded, client.realIp)
           rate == checkRateLimit(cleanupRateLimit(store, now), ip,
                                  RATE_LIMIT, RATE_WINDOW_MS, now)
       IN /\ store' = rate.store
          /\ admitted' = [admitted EXCEPT ![ip] = Observe(@, rate.result)]
          /\ IF ~rate.result.allowed
             THEN /\ response' =
                       [status |-> 429,
                        error |-> "Too many requests. Please try again shortly.",
                        retryAfter |-> retryAfter(rate.result.resetAt, now)]
                  /\ started' = 0
                  /\ UNCHANGED <<client, inflight>>
             ELSE IF ~parsed.success
             THEN /\ response' = errorResponse(400, "Invalid query parameters.")
                  /\ started' = 0
                  /\ UNCHANGED <<client, inflight>>
             ELSE IF ~normalized.ok
             THEN /\ response' = errorResponse(400, normalized.error)
                  /\ started' = 0
                  /\ UNCHANGED <<client, inflight>>
             ELSE /\ inflight' =
                       [inflight EXCEPT ![s] =
                          [pc |-> "awaiting",
                           domain |-> normalized.domain,
                           mode |-> parsed.mode,
                           outcome |-> IF keyConfigured(apiKey)
                                       THEN "pending" ELSE "threw"]]
                  /\ started' = IF keyConfigured(apiKey)
                                THEN Cardinality(Fields) ELSE 0
                  /\ UNCHANGED <<client, response>>
    /\ UNCHANGED <<now, limit, windowMs, log, fetchVars, probe>>

\* GET(request) from its entry to its first await or early return.
Receive(s, url, mode, normalized) ==
    /\ inflight[s].pc = "idle"
    /\ LET parsed == querySchema(url, mode)
           ip == getClientIp(client.forwarded, client.realIp)
           rate == checkRateLimit(cleanupRateLimit(store, now), ip,
                                  RATE_LIMIT, RATE_WINDOW_MS, now)
       IN IF ~parsed.success
          THEN /\ response' = errorResponse(400, "Invalid query parameters.")
               /\ started' = 0
               /\ UNCHANGED <<store, client, inflight, admitted>>
          ELSE IF ~normalized.ok
          THEN /\ response' = errorResponse(400, normalized.error)
               /\ started' = 0
               /\ UNCHANGED <<store, client, inflight, admitted>>
          ELSE /\ store' = rate.store
               /\ admitted' = [admitted EXCEPT ![ip] = Observe(@, rate.result)]
               /\ IF ~rate.result.allowed
                  THEN /\ response' =
                            [status |-> 429,
                             error |-> "Too many requests. Please try again shortly.",
                             retryAfter |-> retryAfter(rate.result.resetAt, now)]
                       /\ started' = 0
                       /\ UNCHANGED <<client, inflight>>
                  ELSE /\ inflight' =
                            [inflight EXCEPT ![s] =
                               [pc |-> "awaiting",
                                domain |-> normalized.domain,
                                mode |-> parsed.mode,
                                outcome |-> IF keyConfigured(apiKey)
                                            THEN "pending" ELSE "threw"]]
                       /\ started' = IF keyConfigured(apiKey)
                                     THEN Cardinality(Fields) ELSE 0
                       /\ UNCHANGED <<client, response>>
    /\ UNCHANGED <<now, limit, windowMs, log, fetchVars, probe>>

\* GET resumes from `await fetchSimilarwebInsights(...)`: the five requests
\* have settled as `results`, or the call threw.
Resume(s, results) ==
    /\ inflight[s].pc = "awaiting"
    /\ response' = routeResult(inflight[s].domain, inflight[s].mode,
                               inflight[s].outcome, buildInsights(results))
    /\ inflight' = [inflight EXCEPT ![s] = Idle]
    /\ started' = 0
    /\ UNCHANGED <<rateVars, fetchVars, client, admitted, probe>>

RouteTick ==
    /\ now < MaxRouteTicks * RouteStep
    /\ now' = now + RouteStep
    /\ UNCHANGED <<store, limit, windowMs, log, fetchVars, response, routeVars, probe>>

NextRoute ==
    \/ \E s \in Slots, url \in UrlParams, mode \in ModeParams,
          normalized \in NormalizeResults :
          Receive(s, url, mode, normalized)
    \/ \E s \in Slots, results \in SettledVectors : Resume(s, results)
    \/ RouteTick

SpecRoute == InitRoute /\ [][NextRoute]_vars

(***************************************************************************)
(* Reading the history: the windows of a key as the contract defines them. *)
(***************************************************************************)
SameKeyBefore(i) == {j \in 1..(i - 1) : log[j].key = log[i].key}

SetMax(S) == CHOOSE x \in S : \A y \in S : y <= x

\* Start of the window the i-th recorded check falls in: the first check of
\* a key opens a window, and so does a check at or after the reset time of
\* the window of the previous check of that key.
RECURSIVE WindowStart(_)
WindowStart(i) ==
    IF SameKeyBefore(i) = {}
    THEN log[i].t
    ELSE LET s == WindowStart(SetMax(SameKeyBefore(i)))
         IN IF log[i].t >= s + windowMs THEN log[i].t ELSE s

\* Position of the i-th recorded check among the checks of its window.
WindowIndex(i) ==
    Cardinality({j \in 1..i : /\ log[j].key = log[i].key
                              /\ WindowStart(j) = WindowStart(i)})

LastCheckOf(key) == SetMax({j \in 1..Len(log) : log[j].key = key})

Checked(key) == \E j \in 1..Len(log) : log[j].key = key

\* C1: with limit >= 1 and windowMs > 0, the k-th check of a window is
\* allowed with remaining = limit - k and the window's resetAt (start +
\* windowMs) while k <= limit, and denied with remaining 0 afterwards; the
\* first check at or after resetAt opens a new window (k = 1 again); the
\* stored entry carries the window's counter and resetAt.
RateWindowContract ==
    limit >= 1 =>
      /\ \A i \in 1..Len(log) :
            LET k == WindowIndex(i)
            IN /\ log[i].allowed = (k <= limit)
               /\ log[i].remaining = (IF k <= limit THEN limit - k ELSE 0)
               /\ k <= limit => log[i].resetAt = WindowStart(i) + windowMs
      /\ \A key \in Keys :
            Checked(key) =>
              LET i == LastCheckOf(key)
              IN IF Has(store, key)
                 THEN store[key] = [count |-> Min(WindowIndex(i), limit),
                                    resetAt |-> WindowStart(i) + windowMs]
                 ELSE WindowStart(i) + windowMs <= now

\* A key was allowed, then denied, then allowed again in a later window
\* with remaining = limit - 1.
RateWindowWitness ==
    /\ limit >= 1
    /\ \E i, j, l \in 1..Len(log) :
          /\ i < j /\ j < l
          /\ log[i].key = log[j].key /\ log[j].key = log[l].key
          /\ log[i].allowed /\ ~log[j].allowed /\ log[l].allowed
          /\ log[l].remaining = limit - 1
          /\ log[l].resetAt > log[j].resetAt

\* Number of allowed checks of a key at times a..b.
AllowedIn(key, a, b) ==
    Cardinality({i \in 1..Len(log) : /\ log[i].key = key
                                     /\ log[i].allowed
                                     /\ a <= log[i].t /\ log[i].t <= b})

DeniedCheckFrame ==
    [][\A key \in Keys :
          ( /\ Len(log') = Len(log) + 1
            /\ log'[Len(log')].key = key
            /\ Has(store, key)
            /\ store[key].resetAt > now
            /\ store[key].count >= limit )
          => /\ store' = store
             /\ ~log'[Len(log')].allowed
             /\ log'[Len(log')].resetAt = store[key].resetAt]_vars

\* The last check was denied while the other key also holds an entry.
DeniedCheckWitness ==
    /\ Len(log) > 0
    /\ ~log[Len(log)].allowed
    /\ \A key \in Keys : Has(store, key)
    /\ store[log[Len(log)].key].resetAt = log[Len(log)].resetAt

(***************************************************************************)
(* Properties of the aggregator.                                           *)
(***************************************************************************)
Rejected == {f \in Fields : tasks[f].st = "rejected"}

\* The collection of a field in an InsightsData.
CollectionOf(data, f) ==
    IF f = "channels" THEN data.channels ELSE data.timeseries[f]

\* The parser finds data for field f in payload v.
Parses(f, v) ==
    IF f = "channels" THEN parseChannels(v).found
    ELSE parseSeries(v, seriesKeyMap(f)).found

\* C5: while any of the five provider requests is still pending,
\* fetchSimilarwebInsights has produced no result and the route has sent
\* no data; a produced result means all five have settled.
FanInAfterAllSettled ==
    /\ (\E f \in Fields : ~IsSettled(tasks[f])) =>
          /\ insights = NoInsights
          /\ fpc # "returned"
          /\ response.status # 200
    /\ fpc = "returned" => insights # NoInsights

\* A result exists after a mix of successes, failures and a timeout.
FanInWitness ==
    /\ fpc = "returned"
    /\ \E f, g, h \in Fields :
          /\ tasks[f].st = "fulfilled"
          /\ tasks[g].st = "rejected" /\ tasks[g].timer = "fired"
          /\ tasks[h].st = "rejected" /\ tasks[h].timer = "cleared"

\* C6: with a configured key, once the call is over and a proper non-empty
\* subset of the five requests has failed, the call returned (it did not
\* throw); when exactly one request failed and the other four payloads
\* parse, partial is true, the only note names the failed field, that
\* field's collection is empty and the other four are populated.
PartialFailureTolerated ==
    (keyConfigured(apiKey) /\ Rejected # {} /\ Rejected # Fields
        /\ fpc \in {"returned", "threw"}) =>
      /\ fpc = "returned"
      /\ \A f \in Rejected :
            (Rejected = {f}
                /\ \A g \in Fields \ {f} : Parses(g, tasks[g].value)) =>
              /\ insights.meta.partial
              /\ insights.meta.notes = <<NoteOf(f)>>
              /\ CollectionOf(insights, f) = <<>>
              /\ \A g \in Fields \ {f} : Len(CollectionOf(insights, g)) > 0

\* Exactly one request failed and the other four payloads parse.
PartialFailureWitness ==
    /\ fpc = "returned"
    /\ Cardinality(Rejected) = 1
    /\ \A g \in Fields \ Rejected : Parses(g, tasks[g].value)
    /\ Len(insights.meta.notes) = 1

\* C7: when all five provider requests fail, the route answers 200 (no
\* hard error) with partial = true and the four timeseries and the channel
\* collection empty.
TotalMissIsSoft ==
    (Rejected = Fields /\ response # NoResponse) =>
      /\ response.status = 200
      /\ response.meta.partial
      /\ \A f \in Fields : CollectionOf(response, f) = <<>>

\* All five failed and the route has answered.
TotalMissWitness ==
    /\ Rejected = Fields
    /\ response # NoResponse
    /\ Len(response.meta.notes) = Cardinality(Fields)

\* C8: in every returned result, meta.partial is true iff the notes list
\* is non-empty or all five collections are empty.
PartialIffNotesOrEmpty ==
    fpc = "returned" =>
      (insights.meta.partial <=>
         \/ Len(insights.meta.notes) > 0
         \/ \A f \in Fields : Len(CollectionOf(insights, f)) = 0)

\* A returned result with a note and a populated collection, flagged
\* partial.
PartialIffWitness ==
    /\ fpc = "returned"
    /\ insights.meta.partial
    /\ Len(insights.meta.notes) > 0
    /\ \E f \in Fields : Len(CollectionOf(insights, f)) > 0

\* C9: the timeout of request f changes request f only; no sibling is
\* cancelled, failed or otherwise touched by it.
TimeoutCancelsOnlyItsRequest ==
    [][\A f \in Fields :
          (tasks[f].timer = "armed" /\ tasks'[f].timer = "fired") =>
            \A g \in Fields \ {f} : tasks'[g] = tasks[g]]_vars

\* One request has timed out while one sibling is still reading its body
\* and another is still waiting for its response.
TimeoutWitness ==
    \E f, g, h \in Fields :
        /\ tasks[f].st = "rejected" /\ tasks[f].timer = "fired"
        /\ tasks[g].st = "reading"
        /\ tasks[h].st = "fetching" /\ tasks[h].timer = "armed"

\* C10: every provider request is time-bounded until it settles: as long
\* as a request has neither succeeded nor failed, its timer is armed, so
\* that a provider which stops answering (before the status line or in the
\* middle of the body) is cut off when the bound elapses.
RequestTimeBoundedUntilSettled ==
    \A f \in Fields :
        tasks[f].st \in {"fetching", "reading"} => tasks[f].timer = "armed"

(***************************************************************************)
(* Properties of the route under overlapping requests.                     *)
(***************************************************************************)
\* C4: whatever the interleaving of overlapping requests of one caller key,
\* no counter update is lost: the requests admitted in one window of a key
\* (between the entry's initialization and its resetAt) never exceed
\* RATE_LIMIT, and the stored counter of a live window equals the number of
\* requests admitted in it.
NoLostAdmission ==
    \A k \in ClientKeys :
        /\ admitted[k].n <= RATE_LIMIT
        /\ (Has(store, k) /\ store[k].resetAt = admitted[k].resetAt) =>
              store[k].count = admitted[k].n

\* A window is full and a request was turned away while earlier requests
\* of the same key are still suspended at their await.
NoLostAdmissionWitness ==
    /\ \E k \in ClientKeys :
          /\ admitted[k].n = RATE_LIMIT
          /\ Has(store, k) /\ store[k].count = RATE_LIMIT
    /\ response.status = 429
    /\ \E s \in Slots : inflight[s].pc = "awaiting"


(***************************************************************************)
(* The configuration error and the order of the route's stages.            *)
(***************************************************************************)
\* C11: when the provider API key is missing or empty, fetchInsights fails
\* with the configuration error before any of the five provider requests
\* is issued (no request is ever started and nothing is aggregated), and
\* the query operation answers with the hard error: status 500 with an
\* error message, never a 200 result carrying partial data and notes.
MissingKeyIsHardError ==
    apiKey \in {Unset, ""} =>
        /\ \A f \in Fields : tasks[f].st = "none" /\ tasks[f].timer = "none"
        /\ fpc \in {"idle", "threw"}
        /\ insights = NoInsights
        /\ response # NoResponse =>
              response = errorResponse(500, "Unable to fetch Similarweb data.")

\* The call was made with an empty key and the route has answered.
MissingKeyWitness ==
    /\ apiKey = ""
    /\ fpc = "threw"
    /\ call # NoCall
    /\ response.status = 500

\* C12: the query operation runs validation, then the rate governor, then
\* the aggregator: a request whose domain fails normalization leaves the
\* rate-limit store unchanged (no sweep, no counter increment), suspends no
\* invocation and issues no provider request; a request the rate governor
\* denies is answered 429, suspends no invocation and issues no provider
\* request.
StagesInOrder ==
    [][\A s \in Slots, url \in UrlParams, mode \in ModeParams,
          normalized \in NormalizeResults :
          Receive(s, url, mode, normalized) =>
             LET ip == getClientIp(client.forwarded, client.realIp)
                 live == Has(store, ip) /\ store[ip].resetAt > now
             IN /\ (querySchema(url, mode).success /\ ~normalized.ok) =>
                       /\ store' = store
                       /\ admitted' = admitted
                       /\ inflight' = inflight
                       /\ started' = 0
                       /\ response' = errorResponse(400, normalized.error)
                /\ (/\ querySchema(url, mode).success
                    /\ normalized.ok
                    /\ live
                    /\ store[ip].count >= RATE_LIMIT) =>
                       /\ response'.status = 429
                       /\ inflight' = inflight
                       /\ started' = 0]_vars

\* A request with a domain that fails normalization has been answered 400
\* while the store holds an expired entry that a sweep would have removed.
StagesInOrderWitness ==
    /\ response = errorResponse(400, "Please enter a public domain name.")
    /\ started = 0
    /\ \E k \in ClientKeys : Has(store, k) /\ store[k].resetAt <= now


(***************************************************************************)
(* The response parser applied to provider payloads.                       *)
(***************************************************************************)
MaxItems == 2      \* elements of a channel array

Wrap(k, v) == JObj(<<Member(k, v)>>)

\* Arrays a series payload may carry: one point; three points out of date
\* order, one of them null; only a null point; none; a malformed element.
PointArrays ==
    {JArr(<<Point("2024-01", JNum(42 * Unit))>>),
     JArr(<<Point("2024-02", JNum(10 * Unit)),
            Point("2024-01", JNum(5 * Unit)),
            Point("2024-03", JNull)>>),
     JArr(<<Point("2024-03", JNull)>>),
     JArr(<<>>),
     JArr(<<Wrap("date", JStr("2024-01")), Point("2024-02", JNum(7 * Unit))>>)}

Leaves == PointArrays \cup {JNull, JStr("n/a")}
KeyedValues == Leaves \cup {Wrap("data", l) : l \in Leaves}
DataValues == Leaves \cup {Wrap("bounce_rate", l) : l \in Leaves}

\* Every payload with or without a bounce_rate member and a data member,
\* each an array, a scalar or a wrapper around one; and the bare values.
SeriesPayloads ==
    Leaves
    \cup {JNum(Unit), JObj(<<>>)}
    \cup {Wrap("bounce_rate", v) : v \in KeyedValues}
    \cup {Wrap("data", d) : d \in DataValues}
    \cup {JObj(<<Member("bounce_rate", v), Member("data", d)>>) :
             v \in KeyedValues, d \in DataValues}

Item(labelKey, label, shareKey, share) ==
    JObj(<<Member(labelKey, JStr(label)), Member(shareKey, JNum(share))>>)

\* Channel items: shares 0.2, 55, exactly 1, 250 and -5 under the labels
\* and value names of channelItemSchema; one without a value, one without
\* a label.
ChannelItems ==
    {Item("channel", "direct", "share", 20 * (Unit \div 100)),
     Item("source", "search", "value", 55 * Unit),
     Item("name", "social", "share", Unit),
     Item("channel", "display", "share", 250 * Unit),
     Item("channel", "refunds", "value", (0 - 5) * Unit),
     Wrap("channel", JStr("mail")),
     Wrap("share", JNum(30 * (Unit \div 100)))}

ChannelArrays ==
    {JArr(a) : a \in UNION {[1..n -> ChannelItems] : n \in 0..MaxItems}}

\* { display: 250, refunds: -5, direct: 0.2 }
WideChannelPayload ==
    JObj(<<Member("display", JNum(250 * Unit)),
           Member("refunds", JNum((0 - 5) * Unit)),
           Member("direct", JNum(20 * (Unit \div 100)))>>)

ChannelMaps == {ChannelPayload, WideChannelPayload, Wrap("note", JStr("n/a"))}

ChannelPayloads ==
    ChannelArrays \cup ChannelMaps
    \cup {Wrap("data", c) : c \in ChannelArrays \cup ChannelMaps}

ParserPayloads == SeriesPayloads \cup ChannelPayloads

ExtractKeys == {"bounce_rate", "data", "visits"}
SeriesKeyLists ==
    {<<>>, <<"bounce_rate">>, <<"bounce_rate", "data">>,
     <<"data", "bounce_rate">>, seriesKeyMap("bounceRate")}

InitParse ==
    /\ store = <<>>
    /\ now = 0
    /\ limit = 0
    /\ windowMs = 1
    /\ log = <<>>
    /\ apiKey = "sw-key"
    /\ call = NoCall
    /\ fpc = "idle"
    /\ tasks = NoTasks
    /\ insights = NoInsights
    /\ response = NoResponse
    /\ client = NoHeaders
    /\ inflight = NoRequests
    /\ started = 0
    /\ admitted = NoneAdmitted
    /\ probe \in {[fn |-> "payload", raw |-> p] : p \in ParserPayloads}

ExtractArray(key) ==
    /\ probe.fn = "payload"
    /\ probe' = [fn |-> "extractArray", raw |-> probe.raw, key |-> key,
                 out |-> extractArray(probe.raw, key)]
    /\ UNCHANGED <<rateVars, fetchVars, response, routeVars>>

ParseSeries(keys) ==
    /\ probe.fn = "payload"
    /\ probe' = [fn |-> "parseSeries", raw |-> probe.raw, keys |-> keys,
                 out |-> parseSeries(probe.raw, keys)]
    /\ UNCHANGED <<rateVars, fetchVars, response, routeVars>>

\* The forEach turn of the channels task with the payload as its value:
\* parseChannels, then the sort by share.
FoldChannels ==
    /\ probe.fn = "payload"
    /\ probe' = [fn |-> "channels", raw |-> probe.raw,
                 out |-> foldResult(EmptyFold, "channels",
                                    [status |-> "fulfilled",
                                     value |-> probe.raw])]
    /\ UNCHANGED <<rateVars, fetchVars, response, routeVars>>

NextParse ==
    \/ \E key \in ExtractKeys : ExtractArray(key)
    \/ \E keys \in SeriesKeyLists : ParseSeries(keys)
    \/ FoldChannels

SpecParse == InitParse /\ [][NextParse]_vars

IsSequence(v) == v.t = "arr"

\* C17: extractArray(payload, key) returns the payload itself when it is a
\* sequence; otherwise, for a keyed payload, the first of payload[key],
\* payload.data[key], payload[key].data that is a sequence, in that order;
\* otherwise not found. A series nested as {data: {bounce_rate: [...]}} is
\* found with key bounce_rate.
ExtractArrayOrder ==
    probe.fn = "extractArray" =>
        LET raw == probe.raw
            direct == Get(raw, probe.key)
            underData == Get(Get(raw, "data"), probe.key)
            wrapped == Get(Get(raw, probe.key), "data")
        IN /\ IsSequence(raw) => probe.out = raw
           /\ raw.t = "obj" =>
                 probe.out = IF IsSequence(direct) THEN direct
                             ELSE IF IsSequence(underData) THEN underData
                             ELSE IF IsSequence(wrapped) THEN wrapped
                             ELSE JNull
           /\ raw.t \notin {"arr", "obj"} => probe.out = JNull
           /\ (raw = NestedPayload /\ probe.key = "bounce_rate") =>
                 probe.out = JArr(<<Point("2024-01", JNum(42 * Unit))>>)

\* Both nested forms hold a sequence and the one under data was returned.
ExtractArrayWitness ==
    /\ probe.fn = "extractArray"
    /\ ~IsSequence(probe.raw)
    /\ ~IsSequence(Get(probe.raw, probe.key))
    /\ IsSequence(Get(Get(probe.raw, "data"), probe.key))
    /\ IsSequence(Get(Get(probe.raw, probe.key), "data"))
    /\ Get(Get(probe.raw, "data"), probe.key)
          # Get(Get(probe.raw, probe.key), "data")
    /\ probe.out = Get(Get(probe.raw, "data"), probe.key)

\* The numeric points of the sequence found under a key, in payload order;
\* none when nothing is found or an element is not a point.
YieldOf(raw, key) ==
    LET found == extractArray(raw, key)
    IN IF IsSequence(found)
          /\ \A i \in 1..Len(found.a) :
                /\ found.a[i].t = "obj"
                /\ Get(found.a[i], "date").t = "str"
                /\ Get(found.a[i], "value").t \in {"num", "null"}
       THEN LET numeric == SelectSeq(found.a,
                              LAMBDA e : Get(e, "value").t = "num")
            IN [i \in 1..Len(numeric) |->
                  [date |-> Get(numeric[i], "date").s,
                   value |-> Get(numeric[i], "value").n]]
       ELSE <<>>

\* C18: parseSeries tries the candidate keys in the caller's priority order
\* and returns the points of the first key whose sequence yields at least
\* one point once the null-valued elements are dropped, in payload order;
\* it reports not found when no key yields a point; what it returns is
\* never empty and every point in it has a numeric value.
ParseSeriesFirstYield ==
    (probe.fn = "parseSeries" /\ probe.keys # <<>>) =>
        LET raw == probe.raw
            keys == probe.keys
            yielding == {i \in 1..Len(keys) : YieldOf(raw, keys[i]) # <<>>}
        IN /\ probe.out.found <=> yielding # {}
           /\ probe.out.found =>
                 /\ \E i \in yielding :
                       /\ \A j \in yielding : i <= j
                       /\ probe.out.items = YieldOf(raw, keys[i])
                 /\ Len(probe.out.items) > 0
                 /\ \A n \in 1..Len(probe.out.items) :
                       probe.out.items[n].value \in Int
           /\ ~probe.out.found => probe.out = NotFound

\* The first key holds only a null point, so the second key's sequence was
\* returned, without its null point and in payload order.
ParseSeriesWitness ==
    /\ probe.fn = "parseSeries"
    /\ probe.keys = <<"bounce_rate", "data">>
    /\ IsSequence(Get(probe.raw, "bounce_rate"))
    /\ YieldOf(probe.raw, "bounce_rate") = <<>>
    /\ probe.out = Found(<<[date |-> "2024-02", value |-> 10 * Unit],
                           [date |-> "2024-01", value |-> 5 * Unit]>>)

\* The labelled, numeric-valued items of a channel payload, before
\* normalization: the elements of the sequence or the entries of the
\* mapping, taken from the data member when there is one.
ChannelSource(raw) ==
    LET inner == Get(raw, "data")
        data == IF inner.t \in {"undefined", "null"} THEN raw ELSE inner
        label(e) == IF Get(e, "channel").t = "str" THEN Get(e, "channel")
                    ELSE IF Get(e, "source").t = "str" THEN Get(e, "source")
                    ELSE Get(e, "name")
        value(e) == IF Get(e, "share").t = "num" THEN Get(e, "share")
                    ELSE Get(e, "value")
    IN IF data.t = "arr"
       THEN LET kept == SelectSeq(data.a,
                           LAMBDA e : /\ e.t = "obj"
                                      /\ label(e).t = "str"
                                      /\ value(e).t = "num")
            IN [i \in 1..Len(kept) |->
                  [channel |-> label(kept[i]).s, share |-> value(kept[i]).n]]
       ELSE IF data.t = "obj"
       THEN LET kept == SelectSeq(data.m, LAMBDA m : m.v.t = "num")
            IN [i \in 1..Len(kept) |->
                  [channel |-> kept[i].k, share |-> kept[i].v.n]]
       ELSE <<>>

\* The threshold rule as the specification states it.
ThresholdRule(c) ==
    [channel |-> c.channel,
     share |-> IF c.share > Unit THEN c.share \div 100 ELSE c.share]

Occurrences(seq, x) == Cardinality({i \in 1..Len(seq) : seq[i] = x})

ShareInUnitInterval ==
    probe.fn = "channels" =>
        \A i \in 1..Len(probe.out.channels) :
            /\ probe.out.channels[i].share >= 0
            /\ probe.out.channels[i].share <= Unit


(***************************************************************************)
(* domain.ts: normalizeDomain on character data. A string is the sequence  *)
(* of its characters, each a one-character string.                         *)
(***************************************************************************)
UpperLetters ==
    <<"A", "B", "C", "D", "E", "F", "G", "H", "I", "J", "K", "L", "M",
      "N", "O", "P", "Q", "R", "S", "T", "U", "V", "W", "X", "Y", "Z">>
LowerLetters ==
    <<"a", "b", "c", "d", "e", "f", "g", "h", "i", "j", "k", "l", "m",
      "n", "o", "p", "q", "r", "s", "t", "u", "v", "w", "x", "y", "z">>
DigitChars == <<"0", "1", "2", "3", "4", "5", "6", "7", "8", "9">>
HexChars == DigitChars \o <<"a", "b", "c", "d", "e", "f">>

Range(seq) == {seq[i] : i \in 1..Len(seq)}
IsUpper(c) == c \in Range(UpperLetters)
IsLower(c) == c \in Range(LowerLetters)
IsLetter(c) == IsUpper(c) \/ IsLower(c)
IsDigit(c) == c \in Range(DigitChars)

\* String.prototype.toLowerCase, character by character
LowerChar(c) ==
    IF IsUpper(c)
    THEN LowerLetters[CHOOSE i \in 1..26 : UpperLetters[i] = c]
    ELSE c
toLowerCase(str) == [i \in 1..Len(str) |-> LowerChar(str[i])]

StartsWith(str, prefix) ==
    Len(str) >= Len(prefix) /\ SubSeq(str, 1, Len(prefix)) = prefix
EndsWith(str, suffix) ==
    /\ Len(str) >= Len(suffix)
    /\ SubSeq(str, Len(str) - Len(suffix) + 1, Len(str)) = suffix
Includes(str, c) == \E i \in 1..Len(str) : str[i] = c
DropFirst(str, n) == SubSeq(str, n + 1, Len(str))

\* String.prototype.indexOf, counted from 1; 0 when c does not occur
IndexOf(str, c) ==
    IF Includes(str, c)
    THEN CHOOSE i \in 1..Len(str) :
            str[i] = c /\ \A j \in 1..(i - 1) : str[j] # c
    ELSE 0

RECURSIVE Split(_, _)
\* String.prototype.split on a one-character separator
Split(str, sep) ==
    IF ~Includes(str, sep) THEN <<str>>
    ELSE <<SubSeq(str, 1, IndexOf(str, sep) - 1)>>
         \o Split(DropFirst(str, IndexOf(str, sep)), sep)

\* String.prototype.trim (the space is the model's whitespace)
IsSpace(c) == c = " "
trim(str) ==
    IF \A i \in 1..Len(str) : IsSpace(str[i]) THEN <<>>
    ELSE LET first == CHOOSE i \in 1..Len(str) :
                         ~IsSpace(str[i]) /\ \A j \in 1..(i - 1) : IsSpace(str[j])
             last == CHOOSE i \in 1..Len(str) :
                         ~IsSpace(str[i])
                         /\ \A j \in (i + 1)..Len(str) : IsSpace(str[j])
         IN SubSeq(str, first, last)

\* The length of the scheme /^[a-z]+:\/\//i matches; 0 when it does not.
schemeLength(str) ==
    LET colon == IndexOf(str, ":")
    IN IF /\ colon > 1
          /\ \A i \in 1..(colon - 1) : IsLetter(str[i])
          /\ Len(str) >= colon + 2
          /\ str[colon + 1] = "/"
          /\ str[colon + 2] = "/"
       THEN colon - 1
       ELSE 0

HttpsScheme == <<"h", "t", "t", "p", "s", ":", "/", "/">>

\* /^[a-z]+:\/\//i.test(trimmed) ? trimmed : `https://${trimmed}`
withScheme(trimmed) ==
    IF schemeLength(trimmed) > 0 THEN trimmed ELSE HttpsScheme \o trimmed

(***************************************************************************)
(* new URL(withScheme).hostname: the URL Standard's parser, for the URLs   *)
(* withScheme produces (a scheme of letters followed by "://") over the    *)
(* model's characters: no "@", "?", "#", "\", "%" and no non-ASCII.         *)
(***************************************************************************)
\* The special schemes ("file" has a host state of its own, which no URL of
\* the model reaches).
SpecialSchemes ==
    {<<"f", "t", "p">>, <<"f", "i", "l", "e">>, <<"h", "t", "t", "p">>,
     <<"h", "t", "t", "p", "s">>, <<"w", "s">>, <<"w", "s", "s">>}

UrlFailure == [ok |-> FALSE, hostname |-> <<>>]
UrlHost(h) == [ok |-> TRUE, hostname |-> h]

\* forbidden host code points that the model's characters include
ForbiddenHostChars == {" ", "/", ":", "[", "]"}

RECURSIVE NumberOf(_, _)
\* the value of a digit string in the given radix
NumberOf(digits, radix) ==
    IF digits = <<>> THEN 0
    ELSE NumberOf(SubSeq(digits, 1, Len(digits) - 1), radix) * radix
         + ((CHOOSE i \in 1..Len(HexChars) :
                HexChars[i] = LowerChar(digits[Len(digits)])) - 1)

\* The radix an IPv4 number is written in: hex after 0x, octal after a
\* leading 0, decimal otherwise.
radixOf(part) ==
    IF Len(part) >= 2 /\ part[1] = "0" /\ LowerChar(part[2]) = "x" THEN 16
    ELSE IF Len(part) >= 2 /\ part[1] = "0" THEN 8
    ELSE 10

numberInRadix(digits, radix) ==
    IF \A i \in 1..Len(digits) :
          \E d \in 1..radix : HexChars[d] = LowerChar(digits[i])
    THEN [ok |-> TRUE, n |-> NumberOf(digits, radix)]
    ELSE [ok |-> FALSE, n |-> 0]

\* IPv4 number parser
parseIPv4Number(part) ==
    IF part = <<>> THEN [ok |-> FALSE, n |-> 0]
    ELSE IF radixOf(part) = 16 THEN numberInRadix(DropFirst(part, 2), 16)
    ELSE IF radixOf(part) = 8 THEN numberInRadix(DropFirst(part, 1), 8)
    ELSE numberInRadix(part, 10)

\* One trailing empty part is removed.
dropEmptyLast(parts) ==
    IF parts[Len(parts)] = <<>> /\ Len(parts) > 1
    THEN SubSeq(parts, 1, Len(parts) - 1)
    ELSE parts

\* The parts of a host between its dots, one trailing empty part removed.
ipv4Parts(host) == dropEmptyLast(Split(host, "."))

lastIsNumber(last) ==
    \/ last # <<>> /\ \A i \in 1..Len(last) : IsDigit(last[i])
    \/ parseIPv4Number(last).ok

\* ends-in-a-number checker
endsInANumber(host) ==
    IF host = <<>> THEN FALSE
    ELSE lastIsNumber(ipv4Parts(host)[Len(ipv4Parts(host))])

RECURSIVE ToDecimal(_)
\* the decimal digits of a natural number
ToDecimal(n) ==
    IF n < 10 THEN <<DigitChars[n + 1]>>
    ELSE ToDecimal(n \div 10) \o <<DigitChars[(n % 10) + 1]>>

RECURSIVE Power(_, _)
Power(b, e) == IF e = 0 THEN 1 ELSE b * Power(b, e - 1)

\* Octet i of an address given by n numbers: the earlier numbers are
\* octets, the last number fills the octets that are left.
ipv4Octet(numbers, i) ==
    IF i < Len(numbers) THEN numbers[i].n
    ELSE (numbers[Len(numbers)].n \div Power(256, 4 - i)) % 256

\* IPv4 serializer: dotted decimal
serializeIPv4(numbers) ==
    ToDecimal(ipv4Octet(numbers, 1)) \o <<".">>
    \o ToDecimal(ipv4Octet(numbers, 2)) \o <<".">>
    \o ToDecimal(ipv4Octet(numbers, 3)) \o <<".">>
    \o ToDecimal(ipv4Octet(numbers, 4))

ipv4FromNumbers(numbers) ==
    IF \E i \in 1..Len(numbers) : ~numbers[i].ok THEN UrlFailure
    ELSE IF \E i \in 1..(Len(numbers) - 1) : numbers[i].n > 255 THEN UrlFailure
    ELSE IF /\ Len(numbers) > 1
            /\ numbers[Len(numbers)].n >= Power(256, 5 - Len(numbers))
    THEN UrlFailure
    ELSE UrlHost(serializeIPv4(numbers))

ipv4FromParts(parts) ==
    IF Len(parts) > 4 THEN UrlFailure
    ELSE ipv4FromNumbers([i \in 1..Len(parts) |-> parseIPv4Number(parts[i])])

\* IPv4 parser: the address in dotted decimal, or failure
parseIPv4(host) == ipv4FromParts(ipv4Parts(host))

\* Groups of one to four hex digits, eight of them, or at most seven
\* around a single "::" (doubles: where two colons meet).
ipv6Groups(str, groups, doubles) ==
    /\ \A i \in 1..Len(groups) :
          /\ Len(groups[i]) <= 4
          /\ \A j \in 1..Len(groups[i]) :
                LowerChar(groups[i][j]) \in Range(HexChars)
    /\ Cardinality(doubles) <= 1
    /\ str[1] = ":" => 1 \in doubles
    /\ str[Len(str)] = ":" => (Len(str) - 1) \in doubles
    /\ IF doubles = {} THEN Len(groups) = 8
       ELSE Cardinality({i \in 1..Len(groups) : groups[i] # <<>>}) <= 7

\* An IPv6 address in text form, without an embedded IPv4 part
isIPv6(str) ==
    /\ Len(str) >= 2
    /\ ipv6Groups(str, Split(str, ":"),
                  {i \in 1..(Len(str) - 1) : str[i] = ":" /\ str[i + 1] = ":"})

\* domain to ASCII (lowercase, for ASCII), then the IPv4 check
parseDomain(domain) ==
    IF domain = <<>> THEN UrlFailure
    ELSE IF endsInANumber(domain) THEN parseIPv4(domain)
    ELSE UrlHost(domain)

\* host parser: a bracketed IPv6 address, an opaque host, or a domain that
\* may turn out to be an IPv4 address. "::1" is its own serialization, and
\* the model's characters form no other bracketed address.
parseHost(host, special) ==
    IF host # <<>> /\ host[1] = "["
    THEN IF host[Len(host)] = "]" /\ isIPv6(SubSeq(host, 2, Len(host) - 1))
         THEN UrlHost(toLowerCase(host))
         ELSE UrlFailure
    ELSE IF \E i \in 1..Len(host) : host[i] \in ForbiddenHostChars
    THEN UrlFailure
    ELSE IF ~special THEN UrlHost(host)
    ELSE parseDomain(toLowerCase(host))

\* Whether position i of the authority is outside brackets.
outsideBrackets(authority, i) ==
    \A j \in 1..(i - 1) :
        authority[j] = "[" => \E k \in (j + 1)..(i - 1) : authority[k] = "]"

\* The authority's host ends before the first colon outside brackets.
hostEnd(authority) ==
    IF \E i \in 1..Len(authority) :
          authority[i] = ":" /\ outsideBrackets(authority, i)
    THEN CHOOSE i \in 1..Len(authority) :
            /\ authority[i] = ":" /\ outsideBrackets(authority, i)
            /\ \A j \in 1..(i - 1) :
                  ~(authority[j] = ":" /\ outsideBrackets(authority, j))
    ELSE Len(authority) + 1

\* host state and port state
urlHostPort(special, host, port, hasPort) ==
    IF hasPort /\ host = <<>> THEN UrlFailure
    ELSE IF \E i \in 1..Len(port) : ~IsDigit(port[i]) THEN UrlFailure
    ELSE IF Len(port) > 5 \/ NumberOf(port, 10) > 65535 THEN UrlFailure
    ELSE IF special /\ host = <<>> THEN UrlFailure
    ELSE parseHost(host, special)

urlAuthority(special, authority) ==
    urlHostPort(special,
                SubSeq(authority, 1, hostEnd(authority) - 1),
                DropFirst(authority, hostEnd(authority)),
                hostEnd(authority) <= Len(authority))

\* The number of slashes the string begins with.
leadingSlashes(str) ==
    IF \A i \in 1..Len(str) : str[i] = "/" THEN Len(str)
    ELSE (CHOOSE i \in 1..Len(str) :
             str[i] # "/" /\ \A j \in 1..(i - 1) : str[j] = "/") - 1

\* authority state: up to the first slash
urlUpToPath(special, rest) ==
    urlAuthority(special,
                 IF IndexOf(rest, "/") = 0 THEN rest
                 ELSE SubSeq(rest, 1, IndexOf(rest, "/") - 1))

\* After "scheme:": a special scheme ignores every slash before the
\* authority, another scheme has its authority after "//".
urlAfterScheme(special, afterColon) ==
    urlUpToPath(special,
                DropFirst(afterColon,
                          IF special THEN leadingSlashes(afterColon) ELSE 2))

\* new URL(url).hostname, or failure for the TypeError
urlHostname(url) ==
    urlAfterScheme(
        toLowerCase(SubSeq(url, 1, schemeLength(url))) \in SpecialSchemes,
        DropFirst(url, schemeLength(url) + 1))

\* node:net isIPv4: four decimal octets without leading zeros
isIPv4(str) ==
    LET parts == Split(str, ".")
    IN /\ Len(parts) = 4
       /\ \A i \in 1..4 :
             /\ Len(parts[i]) \in 1..3
             /\ \A j \in 1..Len(parts[i]) : IsDigit(parts[i][j])
             /\ Len(parts[i]) > 1 => parts[i][1] # "0"
             /\ NumberOf(parts[i], 10) <= 255

\* node:net isIP: 4, 6 or 0
isIP(str) == IF isIPv4(str) THEN 4 ELSE IF isIPv6(str) THEN 6 ELSE 0

\* punycode.toASCII: labels with a non-ASCII character are encoded; the
\* model's characters are ASCII, whose labels are returned as they are.
toASCII(str) == str

\* hostnameRegex.test
hostnameRegex(str) ==
    /\ Len(str) \in 1..253
    /\ \A label \in Range(Split(str, ".")) :
          /\ Len(label) \in 1..63
          /\ \A i \in 1..Len(label) :
                IsLetter(label[i]) \/ IsDigit(label[i]) \/ label[i] = "-"
          /\ label[1] # "-"
          /\ label[Len(label)] # "-"

WwwPrefix == <<"w", "w", "w", ".">>
LocalhostSuffix == <<".", "l", "o", "c", "a", "l", "h", "o", "s", "t">>

blockedHostnames ==
    {<<"l", "o", "c", "a", "l", "h", "o", "s", "t">>,
     <<"l", "o", "c", "a", "l">>,
     <<"i", "n", "t", "e", "r", "n", "a", "l">>}

\* normalized.replace(/^www\./, "")
stripWww(str) == IF StartsWith(str, WwwPrefix) THEN DropFirst(str, 4) ELSE str

\* normalized.replace(/\.$/, "")
stripTrailingDot(str) ==
    IF str # <<>> /\ str[Len(str)] = "."
    THEN SubSeq(str, 1, Len(str) - 1)
    ELSE str

\* Only the three blocklisted names are refused, not their subdomains.
isBlocked_exactOnly(normalized) == normalized \in blockedHostnames

\* blockedHostnames.has(normalized) || normalized.endsWith(".localhost")
isBlocked(normalized) ==
    normalized \in blockedHostnames \/ EndsWith(normalized, LocalhostSuffix)

Rejection(error) == [ok |-> FALSE, error |-> error]
Normalized(domain) == [ok |-> TRUE, domain |-> domain]

\* normalizeDomain from line 45: the grammar and the dot
validateAscii(ascii) ==
    IF ~hostnameRegex(ascii) \/ ~Includes(ascii, ".")
    THEN Rejection("Please enter a public domain name.")
    ELSE Normalized(ascii)

\* normalizeDomain from line 33: the checks on the stripped hostname
validateHostname(normalized) ==
    IF normalized = <<>> THEN Rejection("Please enter a valid domain.")
    ELSE IF isBlocked(normalized)
    THEN Rejection("Localhost domains are not supported.")
    ELSE IF isIP(normalized) # 0
    THEN Rejection("IP addresses are not supported.")
    ELSE validateAscii(toASCII(normalized))

\* normalizeDomain from line 25: the outcome of new URL
normalizeParsed(url) ==
    IF ~url.ok THEN Rejection("That doesn't look like a valid URL.")
    ELSE validateHostname(
            stripTrailingDot(stripWww(toLowerCase(url.hostname))))

normalizeTrimmed(trimmed) ==
    IF trimmed = <<>> THEN Rejection("Please enter a URL or domain.")
    ELSE normalizeParsed(urlHostname(withScheme(trimmed)))

\* normalizeDomain(input): NormalizeResult
normalizeDomain(input) == normalizeTrimmed(trim(input))

(***************************************************************************)
(* normalizeDomain applied to typed input. The input is typed in pieces,   *)
(* each a run of characters; normalizeDomain sees the characters only.     *)
(***************************************************************************)
MaxPieces == 3     \* pieces of one input

Pieces ==
    {"www.", "a.co", "a", "A", ".", "-", " ", "/p", "https://",
     "localhost", "local", "internal", "127.0.0.1", "[::1]"}

CharsOfPiece(piece) ==
    CASE piece = "www." -> WwwPrefix
      [] piece = "a.co" -> <<"a", ".", "c", "o">>
      [] piece = "a" -> <<"a">>
      [] piece = "A" -> <<"A">>
      [] piece = "." -> <<".">>
      [] piece = "-" -> <<"-">>
      [] piece = " " -> <<" ">>
      [] piece = "/p" -> <<"/", "p">>
      [] piece = "https://" -> HttpsScheme
      [] piece = "localhost" -> <<"l", "o", "c", "a", "l", "h", "o", "s", "t">>
      [] piece = "local" -> <<"l", "o", "c", "a", "l">>
      [] piece = "internal" -> <<"i", "n", "t", "e", "r", "n", "a", "l">>
      [] piece = "127.0.0.1" -> <<"1", "2", "7", ".", "0", ".", "0", ".", "1">>
      [] piece = "[::1]" -> <<"[", ":", ":", "1", "]">>

InitDomain ==
    /\ store = <<>>
    /\ now = 0
    /\ limit = 0
    /\ windowMs = 1
    /\ log = <<>>
    /\ apiKey = "sw-key"
    /\ call = NoCall
    /\ fpc = "idle"
    /\ tasks = NoTasks
    /\ insights = NoInsights
    /\ response = NoResponse
    /\ client = NoHeaders
    /\ inflight = NoRequests
    /\ started = 0
    /\ admitted = NoneAdmitted
    /\ probe = [fn |-> "typing", pieces |-> 0, input |-> <<>>]

\* The user types one more piece of the input.
Type(piece) ==
    /\ probe.fn = "typing"
    /\ probe.pieces < MaxPieces
    /\ probe' = [probe EXCEPT !.pieces = @ + 1,
                              !.input = @ \o CharsOfPiece(piece)]
    /\ UNCHANGED <<rateVars, fetchVars, response, routeVars>>

\* normalizeDomain(input)
Normalize ==
    /\ probe.fn = "typing"
    /\ probe' = [fn |-> "normalizeDomain", input |-> probe.input,
                 out |-> normalizeDomain(probe.input)]
    /\ UNCHANGED <<rateVars, fetchVars, response, routeVars>>

\* normalizeDomain applied to the domain a successful call returned.
Renormalize ==
    /\ probe.fn = "normalizeDomain"
    /\ probe.out.ok
    /\ probe' = [fn |-> "renormalized", input |-> probe.input,
                 first |-> probe.out,
                 out |-> normalizeDomain(probe.out.domain)]
    /\ UNCHANGED <<rateVars, fetchVars, response, routeVars>>

NextDomain ==
    \/ \E piece \in Pieces : Type(piece)
    \/ Normalize
    \/ Renormalize

SpecDomain == InitDomain /\ [][NextDomain]_vars

\* The hostname as normalizeDomain examines it: lowercased, one leading
\* "www." and one trailing dot stripped.
StrippedHost(hostname) == stripTrailingDot(stripWww(toLowerCase(hostname)))

\* A literal IPv4 address, or a literal IPv6 address with or without the
\* brackets a URL puts around it.
IsIpLiteral(hostname) ==
    \/ isIPv4(hostname)
    \/ isIPv6(hostname)
    \/ /\ Len(hostname) > 2
       /\ hostname[1] = "["
       /\ hostname[Len(hostname)] = "]"
       /\ isIPv6(SubSeq(hostname, 2, Len(hostname) - 1))

\* C13: normalize is idempotent on its outputs: whenever normalize succeeds
\* on an input with domain d, normalize(d) succeeds too and returns
\* exactly d.
NormalizeIdempotent ==
    probe.fn = "renormalized" =>
        /\ probe.out.ok
        /\ probe.out.domain = probe.first.domain

\* C14: normalize rejects every input that is empty or whitespace-only,
\* every input whose hostname (lowercased, one leading "www." and one
\* trailing dot stripped) is localhost, local or internal or ends in
\* ".localhost", and every input whose hostname is a literal IPv4 or IPv6
\* address: none of these yields a successful result.
RejectionSet ==
    probe.fn = "normalizeDomain" =>
        LET url == urlHostname(withScheme(trim(probe.input)))
            host == StrippedHost(url.hostname)
        IN /\ (\A i \in 1..Len(probe.input) : probe.input[i] = " ") =>
                 ~probe.out.ok
           /\ (/\ trim(probe.input) # <<>>
               /\ url.ok
               /\ \/ host \in blockedHostnames
                  \/ EndsWith(host, LocalhostSuffix)) => ~probe.out.ok
           /\ (/\ trim(probe.input) # <<>>
               /\ url.ok
               /\ IsIpLiteral(url.hostname)) => ~probe.out.ok

\* "a.localhost" was refused: a subdomain of localhost.
RejectionSetWitness ==
    /\ probe.fn = "normalizeDomain"
    /\ probe.input = <<"a">> \o LocalhostSuffix
    /\ probe.out = Rejection("Localhost domains are not supported.")

\* C15: every domain a successful normalize returns satisfies the
\* NormalizedDomain invariant: it is lowercase, has no leading "www.", has
\* no trailing dot, contains a dot, and matches the public-hostname grammar
\* (labels of 1 to 63 characters of letters, digits and hyphens, without a
\* leading or trailing hyphen, at most 253 characters in all).
NormalizedDomainInvariant ==
    (probe.fn = "normalizeDomain" /\ probe.out.ok) =>
        LET d == probe.out.domain
        IN /\ \A i \in 1..Len(d) : ~IsUpper(d[i])
           /\ ~StartsWith(d, WwwPrefix)
           /\ d[Len(d)] # "."
           /\ Includes(d, ".")
           /\ Len(d) <= 253
           /\ \A label \in Range(Split(d, ".")) :
                 /\ Len(label) \in 1..63
                 /\ label[1] # "-"
                 /\ label[Len(label)] # "-"
                 /\ \A i \in 1..Len(label) :
                       IsLower(label[i]) \/ IsDigit(label[i]) \/ label[i] = "-"

\* The rejection cause that applies to an input, the first in the order of
\* the algorithm; "none" when the input is accepted.
RejectionCause(input) ==
    LET trimmed == trim(input)
        url == urlHostname(withScheme(trimmed))
        host == StrippedHost(url.hostname)
    IN IF trimmed = <<>> THEN "empty input"
       ELSE IF ~url.ok THEN "unparsable URL"
       ELSE IF host = <<>> THEN "empty remainder"
       ELSE IF host \in blockedHostnames \/ EndsWith(host, LocalhostSuffix)
       THEN "blocklisted hostname"
       ELSE IF IsIpLiteral(url.hostname) \/ IsIpLiteral(host) THEN "IP literal"
       ELSE IF ~hostnameRegex(host) THEN "hostname grammar"
       ELSE IF ~Includes(host, ".") THEN "missing dot"
       ELSE "none"

\* One rejected input for each cause: "", "a a", "www.", "localhost",
\* "127.0.0.1", "-a.co", "a".
CauseExamples ==
    {<<>>,
     <<"a", " ", "a">>,
     WwwPrefix,
     <<"l", "o", "c", "a", "l", "h", "o", "s", "t">>,
     <<"1", "2", "7", ".", "0", ".", "0", ".", "1">>,
     <<"-", "a", ".", "c", "o">>,
     <<"a">>}

\* C16: each rejection cause of normalize (empty input, unparsable URL,
\* empty remainder after stripping, blocklisted hostname, IP literal,
\* hostname-grammar violation, missing dot) has its own reason string: a
\* rejected input receives the same message as another rejected input
\* exactly when the two are rejected for the same cause.
ReasonPerCause ==
    (probe.fn = "normalizeDomain" /\ ~probe.out.ok) =>
        \A other \in CauseExamples :
            (normalizeDomain(other).error = probe.out.error)
               <=> (RejectionCause(other) = RejectionCause(probe.input))


(***************************************************************************)
(* A channel share on its way to the screen: normalizeShare in the parser, *)
(* the page's channelSeries, then formatPercent.                           *)
(***************************************************************************)
MaxPercent == 100      \* the largest share the provider sends, as a percentage
FineSteps == 50        \* shares of 0.000 to 0.050 in steps of 0.001

\* The provider's share values: whole percentages 0 to MaxPercent, the
\* fractions 0.00 to 1.00 in steps of 0.01, and small fractions in steps
\* of 0.001.
ShareValues ==
    {k * Unit : k \in 0..MaxPercent}
    \cup {k * (Unit \div 100) : k \in 0..100}
    \cup {k * (Unit \div 1000) : k \in 0..FineSteps}

\* page.tsx channelSeries: item.share > 1 ? item.share : item.share * 100
channelSeriesShare(share) == IF share > Unit THEN share ELSE share * 100

\* normalizePercent(value), for a number
normalizePercent(value) == IF value > Unit THEN value ELSE value * 100

\* Intl.NumberFormat with maximumFractionDigits 1: the number of tenths
\* shown, halves rounded away from zero (the values here are not negative).
toTenths(value) == (value * 10 + Unit \div 2) \div Unit

\* formatPercent(value), for a number: the tenths of a percent shown
formatPercent(value) == toTenths(normalizePercent(value))

InitDisplay ==
    /\ store = <<>>
    /\ now = 0
    /\ limit = 0
    /\ windowMs = 1
    /\ log = <<>>
    /\ apiKey = "sw-key"
    /\ call = NoCall
    /\ fpc = "idle"
    /\ tasks = NoTasks
    /\ insights = NoInsights
    /\ response = NoResponse
    /\ client = NoHeaders
    /\ inflight = NoRequests
    /\ started = 0
    /\ admitted = NoneAdmitted
    /\ probe \in {[fn |-> "provider", value |-> v] : v \in ShareValues}

\* The parser stores the share of a channel item.
StoreShare ==
    /\ probe.fn = "provider"
    /\ probe' = [fn |-> "parsed", value |-> probe.value,
                 share |-> normalizeShare(probe.value)]
    /\ UNCHANGED <<rateVars, fetchVars, response, routeVars>>

\* The page renders the channel: channelSeries, then formatPercent.
ShowShare ==
    /\ probe.fn = "parsed"
    /\ probe' = [fn |-> "shown", value |-> probe.value, share |-> probe.share,
                 out |-> formatPercent(channelSeriesShare(probe.share))]
    /\ UNCHANGED <<rateVars, fetchVars, response, routeVars>>

NextDisplay == StoreShare \/ ShowShare

SpecDisplay == InitDisplay /\ [][NextDisplay]_vars

\* C21: the threshold rule is applied consistently between parsing and
\* display, without double conversion: for every provider share value v in
\* [0,100] the percentage shown for the channel, after normalizeShare,
\* channelSeries and formatPercent, is the percentage the parser's rule
\* means: v when v > 1, v * 100 when v <= 1.
NoDoubleConversion ==
    probe.fn = "shown" =>
        probe.out = toTenths(IF probe.value > Unit THEN probe.value
                             ELSE probe.value * 100)


(***************************************************************************)
(* latestValue and the summary of a result, on series in any order.        *)
(***************************************************************************)
MaxPoints == 3     \* points of one series

DateLabels == {"2024-01", "2024-02", "2024-03", "2024-03-09", "2024-03-10"}
PointValues == {5 * Unit, 10 * Unit}
SeriesPoints == [date : DateLabels, value : PointValues]
SeriesInputs == UNION {[1..n -> SeriesPoints] : n \in 0..MaxPoints}

\* The provider payload { data: [ {date, value}, ... ] } of a series.
payloadOf(series) ==
    Wrap("data", JArr([i \in 1..Len(series) |->
                          Point(series[i].date, JNum(series[i].value))]))

\* The five settled results when only `field` was answered, with the series.
onlyField(field, series) ==
    [f \in Fields |->
        IF f = field THEN [status |-> "fulfilled", value |-> payloadOf(series)]
        ELSE [status |-> "rejected", value |-> Undefined]]

InitLatest ==
    /\ store = <<>>
    /\ now = 0
    /\ limit = 0
    /\ windowMs = 1
    /\ log = <<>>
    /\ apiKey = "sw-key"
    /\ call = NoCall
    /\ fpc = "idle"
    /\ tasks = NoTasks
    /\ insights = NoInsights
    /\ response = NoResponse
    /\ client = NoHeaders
    /\ inflight = NoRequests
    /\ started = 0
    /\ admitted = NoneAdmitted
    /\ probe \in {[fn |-> "series", series |-> x] : x \in SeriesInputs}

LatestValue ==
    /\ probe.fn = "series"
    /\ probe' = [fn |-> "latestValue", series |-> probe.series,
                 out |-> latestValue(probe.series)]
    /\ UNCHANGED <<rateVars, fetchVars, response, routeVars>>

\* fetchSimilarwebInsights from the settled results on, the series being
\* the provider's answer for one field.
Summarize(field) ==
    /\ probe.fn = "series"
    /\ probe' = [fn |-> "summary", series |-> probe.series, field |-> field,
                 out |-> buildInsights(onlyField(field, probe.series))]
    /\ UNCHANGED <<rateVars, fetchVars, response, routeVars>>

NextLatest ==
    \/ LatestValue
    \/ \E field \in SeriesFields : Summarize(field)

SpecLatest == InitLatest /\ [][NextLatest]_vars

\* v is the value of a point of the series whose date label no label of
\* the series follows in lexicographic order; no value for an empty series.
IsLatestOf(series, v) ==
    IF series = <<>> THEN v = Undefined
    ELSE \E i \in 1..Len(series) :
            /\ v = JNum(series[i].value)
            /\ \A j \in 1..Len(series) :
                  LexCompare(CharsOf(series[j].date),
                             CharsOf(series[i].date)) <= 0

SummaryOf(summary, field) ==
    CASE field = "visits" -> summary.latestVisits
      [] field = "bounceRate" -> summary.latestBounceRate
      [] field = "pagesPerVisit" -> summary.latestPagesPerVisit
      [] field = "avgDuration" -> summary.latestAvgDurationSeconds

\* C22: latestValue returns the value of a point whose date label is the
\* lexicographically greatest label of the series, whatever the order of
\* the points in the array, and no value for an empty series; each summary
\* field of a result is latestValue of the corresponding timeseries.
LatestByLabel ==
    /\ probe.fn = "latestValue" => IsLatestOf(probe.series, probe.out)
    /\ probe.fn = "summary" =>
          /\ probe.out.timeseries[probe.field] = probe.series
          /\ \A f \in SeriesFields :
                IsLatestOf(probe.out.timeseries[f],
                           SummaryOf(probe.out.summary, f))

\* The series [{2024-02, 10}, {2024-01, 5}] of the visits field: the
\* summary holds 10, the value of the later label, not of the last element.
LatestByLabelWitness ==
    /\ probe.fn = "summary"
    /\ probe.field = "visits"
    /\ probe.series = <<[date |-> "2024-02", value |-> 10 * Unit],
                        [date |-> "2024-01", value |-> 5 * Unit]>>
    /\ probe.out.summary.latestVisits = JNum(10 * Unit)


(***************************************************************************)
(* similarweb.ts: getMonthlyRange. A Date is its UTC year, month (0 to 11) *)
(* and day of the month; a year-month token is a character sequence.       *)
(***************************************************************************)
FirstYear == 2023      \* the years the clock is read in
LastYear == 2025

IsLeapYear(year) == (year % 4 = 0 /\ year % 100 # 0) \/ year % 400 = 0

daysInMonth(year, month) ==
    IF month = 1 THEN (IF IsLeapYear(year) THEN 29 ELSE 28)
    ELSE IF month \in {3, 5, 8, 10} THEN 30
    ELSE 31

\* A date with its month in 0..11 whose day may lie past the month's end:
\* the days left over carry into the next month.
carryDays(year, month, day) ==
    IF day <= daysInMonth(year, month)
    THEN [year |-> year, month |-> month, day |-> day]
    ELSE [year |-> IF month = 11 THEN year + 1 ELSE year,
          month |-> (month + 1) % 12,
          day |-> day - daysInMonth(year, month)]

\* Date.UTC(year, month, day) as a Date: a month outside 0..11 carries
\* into the year, a day past the end of the month into the next month.
DateUTC(year, month, day) == carryDays(year + (month \div 12), month % 12, day)

\* date.setUTCMonth(month)
setUTCMonth(date, month) == DateUTC(date.year, month, date.day)

\* String(n).padStart(2, "0")
padStart2(digits) == IF Len(digits) < 2 THEN <<"0">> \o digits ELSE digits

\* formatYearMonth(date)
formatYearMonth(date) ==
    ToDecimal(date.year) \o <<"-">> \o padStart2(ToDecimal(date.month + 1))

\* The anchor keeps the day of the month of the clock.
monthAnchor_keepDay(nowDate) == DateUTC(nowDate.year, nowDate.month, nowDate.day)

\* new Date(Date.UTC(now.getUTCFullYear(), now.getUTCMonth(), 1))
monthAnchor(nowDate) == DateUTC(nowDate.year, nowDate.month, 1)

\* start and end from the anchor moved one month back
rangeEndingAt(end) ==
    [start |-> formatYearMonth(setUTCMonth(end, end.month - 2)),
     end |-> formatYearMonth(end)]

monthBefore(anchor) == setUTCMonth(anchor, anchor.month - 1)

\* getMonthlyRange(now)
getMonthlyRange(nowDate) == rangeEndingAt(monthBefore(monthAnchor(nowDate)))

ClockDates ==
    {d \in [year : FirstYear..LastYear, month : 0..11, day : 1..31] :
        d.day <= daysInMonth(d.year, d.month)}

InitRange ==
    /\ store = <<>>
    /\ now = 0
    /\ limit = 0
    /\ windowMs = 1
    /\ log = <<>>
    /\ apiKey = "sw-key"
    /\ call = NoCall
    /\ fpc = "idle"
    /\ tasks = NoTasks
    /\ insights = NoInsights
    /\ response = NoResponse
    /\ client = NoHeaders
    /\ inflight = NoRequests
    /\ started = 0
    /\ admitted = NoneAdmitted
    /\ probe \in {[fn |-> "clock", date |-> d] : d \in ClockDates}

\* buildQuery("monthly"): const range = getMonthlyRange()
MonthlyRange ==
    /\ probe.fn = "clock"
    /\ probe' = [fn |-> "getMonthlyRange", date |-> probe.date,
                 out |-> getMonthlyRange(probe.date)]
    /\ UNCHANGED <<rateVars, fetchVars, response, routeVars>>

NextRange == MonthlyRange

SpecRange == InitRange /\ [][NextRange]_vars

\* The token of calendar month m (1 to 12) of year y, zero-padded.
YearMonth(y, m) ==
    ToDecimal(y) \o <<"-">>
    \o (IF m < 10 THEN <<"0">> \o ToDecimal(m) ELSE ToDecimal(m))

\* C23: for every current date (any year, month and day of the month)
\* getMonthlyRange returns end = the calendar month immediately before the
\* current month and start = the month two months before end, as
\* zero-padded year-month tokens with the year wrapping around (April
\* gives January to March, January gives October to December of the year
\* before); the current month is never inside the range.
ThreeMonthsBefore ==
    probe.fn = "getMonthlyRange" =>
        LET y == probe.date.year
            m == probe.date.month + 1
            endY == IF m = 1 THEN y - 1 ELSE y
            endM == IF m = 1 THEN 12 ELSE m - 1
            startY == IF endM <= 2 THEN endY - 1 ELSE endY
            startM == IF endM <= 2 THEN endM + 10 ELSE endM - 2
        IN /\ probe.out.end = YearMonth(endY, endM)
           /\ probe.out.start = YearMonth(startY, startM)
           /\ YearMonth(y, m) \notin {probe.out.start, probe.out.end}

\* On 31 January 2024 the range is 2023-10 to 2023-12.
ThreeMonthsBeforeWitness ==
    /\ probe.fn = "getMonthlyRange"
    /\ probe.date = [year |-> 2024, month |-> 0, day |-> 31]
    /\ probe.out = [start |-> <<"2", "0", "2", "3", "-", "1", "0">>,
                    end |-> <<"2", "0", "2", "3", "-", "1", "2">>]


(***************************************************************************)
(* The sweep of the rate limiter's store.                                  *)
(***************************************************************************)
\* A step of cleanupRateLimit that deleted something: the store changes
\* while no check is logged and the clock stands still.
SweepStep == store' # store /\ log' = log /\ now' = now

\* C24: a sweep removes exactly the entries whose resetAt is at or before
\* the current time and leaves every other entry (key, count and resetAt)
\* unchanged; after it every remaining entry has resetAt > now.
SweepRemovesExpiredOnly ==
    [][SweepStep =>
        /\ DOMAIN store' = {k \in DOMAIN store : store[k].resetAt > now}
        /\ \A k \in DOMAIN store' :
              /\ store'[k] = store[k]
              /\ store'[k].resetAt > now']_vars

\* A sweep has deleted one checked key's entry and kept a live one.
SweepWitness ==
    /\ \E i \in 1..Len(log) : log[i].key \notin DOMAIN store
    /\ \E k \in DOMAIN store : store[k].resetAt > now /\ store[k].count >= 1


\* The store the recorded checks 1..n leave behind when cleanupRateLimit
\* is never called.
RECURSIVE SweepFreeStore(_)
SweepFreeStore(n) ==
    IF n = 0 THEN <<>>
    ELSE checkRateLimit(SweepFreeStore(n - 1), log[n].key, limit, windowMs,
                        log[n].t).store

\* What the n-th recorded check returns when no sweep has ever run.
SweepFreeResult(n) ==
    checkRateLimit(SweepFreeStore(n - 1), log[n].key, limit, windowMs,
                   log[n].t).result

\* C25: the sweep is not correctness-critical: for every sequence of checks
\* and clock advances, with sweeps at any points between them, every check
\* returns (allowed, remaining, resetAt) as it does with no sweep at all.
SweepIndependence ==
    \A i \in 1..Len(log) :
        SweepFreeResult(i) = [allowed |-> log[i].allowed,
                              remaining |-> log[i].remaining,
                              resetAt |-> log[i].resetAt]

\* A sweep has emptied part of the store the checks alone would have
\* left, and a key was checked again after its window had ended.
SweepIndependenceWitness ==
    /\ DOMAIN store # DOMAIN SweepFreeStore(Len(log))
    /\ \E i, j \in 1..Len(log) :
          /\ i < j
          /\ log[i].key = log[j].key
          /\ log[i].resetAt <= log[j].t
          /\ \E k \in 1..Len(log) :
                /\ log[k].key # log[j].key
                /\ log[k].resetAt <= log[j].t
                /\ ~Has(store, log[k].key)

\* Allowed checks before the i-th one in the window the i-th falls in.
AllowedBefore(i) ==
    Cardinality({j \in 1..(i - 1) : /\ log[j].key = log[i].key
                                    /\ WindowStart(j) = WindowStart(i)
                                    /\ log[j].allowed})

\* C28: for every limit >= 0 and every sequence of checks and clock
\* advances, the remaining a check returns is never negative, and a check
\* is allowed only if fewer than limit checks have been allowed before it
\* in the current window.
RemainingNeverNegative ==
    \A i \in 1..Len(log) :
        /\ log[i].remaining >= 0
        /\ log[i].allowed => AllowedBefore(i) < limit


(***************************************************************************)
(* page.tsx: the loader of the Home component. The component's state is    *)
(* one record: the url and mode inputs, the url's query parameters (the    *)
(* mode of the address, or "none" without a url parameter), lastQueryRef,  *)
(* whether the query effect has yet to run for the current parameters,     *)
(* the loading flag, the data shown, and the loadInsights calls suspended  *)
(* at their await. Requests are numbered in the order they are issued;     *)
(* shown is the number of the request whose settlement wrote data last.    *)
(***************************************************************************)
MaxLoads == 3      \* loadInsights calls issued in one behaviour

Site == "example.com"
NoQuery == "none"
NoData == [kind |-> "null"]

\* loadInsights(targetUrl, targetMode, syncQuery) up to its await
issueLoad(page, targetMode, syncQuery) ==
    [page EXCEPT !.loading = TRUE,
                 !.issued = @ + 1,
                 !.pending = @ \cup {[id |-> page.issued + 1,
                                      mode |-> targetMode,
                                      sync |-> syncQuery]}]

InitPage ==
    /\ store = <<>>
    /\ now = 0
    /\ limit = 0
    /\ windowMs = 1
    /\ log = <<>>
    /\ apiKey = "sw-key"
    /\ call = NoCall
    /\ fpc = "idle"
    /\ tasks = NoTasks
    /\ insights = NoInsights
    /\ response = NoResponse
    /\ client = NoHeaders
    /\ inflight = NoRequests
    /\ started = 0
    /\ admitted = NoneAdmitted
    /\ probe \in {[fn |-> "page", url |-> "", mode |-> "monthly",
                   query |-> q, lastQueryRef |-> "null", effectDue |-> TRUE,
                   loading |-> FALSE, data |-> NoData, shown |-> 0,
                   issued |-> 0, pending |-> {}] :
                  q \in {NoQuery} \cup InsightModes}

\* The user types the site into the url input (disabled while loading).
TypeUrl ==
    /\ ~probe.loading
    /\ probe.url = ""
    /\ probe' = [probe EXCEPT !.url = Site]
    /\ UNCHANGED <<rateVars, fetchVars, response, routeVars>>

\* handleAnalyze: the form's submit (its controls are disabled while
\* loading).
HandleAnalyze ==
    /\ ~probe.loading
    /\ probe.url # ""
    /\ probe.issued < MaxLoads
    /\ probe' = issueLoad([probe EXCEPT !.lastQueryRef = probe.mode],
                          probe.mode, TRUE)
    /\ UNCHANGED <<rateVars, fetchVars, response, routeVars>>

\* handleModeChange(value): the mode tabs, never disabled.
HandleModeChange(nextMode) ==
    /\ nextMode # probe.mode
    /\ probe.url # "" => probe.issued < MaxLoads
    /\ probe' = IF probe.url # ""
                THEN issueLoad([probe EXCEPT !.mode = nextMode,
                                             !.lastQueryRef = nextMode],
                               nextMode, TRUE)
                ELSE [probe EXCEPT !.mode = nextMode]
    /\ UNCHANGED <<rateVars, fetchVars, response, routeVars>>

\* The address changes from outside the component (history navigation).
Navigate(queryMode) ==
    /\ queryMode # probe.query
    /\ probe' = [probe EXCEPT !.query = queryMode, !.effectDue = TRUE]
    /\ UNCHANGED <<rateVars, fetchVars, response, routeVars>>

\* The effect on [loadInsights, queryMode, queryUrl].
QueryEffect ==
    /\ probe.effectDue
    /\ LET ran == [probe EXCEPT !.effectDue = FALSE]
       IN IF probe.query = NoQuery \/ probe.lastQueryRef = probe.query
          THEN probe' = ran
          ELSE /\ probe.issued < MaxLoads
               /\ probe' = issueLoad([ran EXCEPT !.lastQueryRef = probe.query,
                                                 !.url = Site,
                                                 !.mode = probe.query],
                                     probe.query, FALSE)
    /\ UNCHANGED <<rateVars, fetchVars, response, routeVars>>

\* A suspended loadInsights resumes with an ok response: setData(payload),
\* updateQuery when syncQuery, setLoading(false).
SettleOk(request) ==
    /\ request \in probe.pending
    /\ probe' = [probe EXCEPT
                   !.pending = @ \ {request},
                   !.data = [kind |-> "insights", mode |-> request.mode],
                   !.shown = request.id,
                   !.query = IF request.sync THEN request.mode ELSE @,
                   !.effectDue = @ \/ (request.sync /\ probe.query # request.mode),
                   !.loading = FALSE]
    /\ UNCHANGED <<rateVars, fetchVars, response, routeVars>>

\* It resumes with a rejected fetch or a response that is not ok:
\* setData(null), toast, setLoading(false).
SettleError(request) ==
    /\ request \in probe.pending
    /\ probe' = [probe EXCEPT !.pending = @ \ {request},
                              !.data = NoData,
                              !.shown = request.id,
                              !.loading = FALSE]
    /\ UNCHANGED <<rateVars, fetchVars, response, routeVars>>

LoadRequests == [id : 1..(MaxLoads + 1), mode : InsightModes, sync : BOOLEAN]

NextPage ==
    \/ TypeUrl
    \/ HandleAnalyze
    \/ \E nextMode \in InsightModes : HandleModeChange(nextMode)
    \/ \E queryMode \in InsightModes : Navigate(queryMode)
    \/ QueryEffect
    \/ \E request \in LoadRequests : SettleOk(request)
    \/ \E request \in LoadRequests : SettleError(request)

SpecPage == InitPage /\ [][NextPage]_vars

\* C29: when several loadInsights requests overlap (a mode change or a
\* query-parameter change while an earlier request is in flight), then
\* once all in-flight requests have settled the data shown is the response
\* to the most recently issued request, whatever the order in which the
\* responses arrive.
LatestRequestShown ==
    (probe.issued >= 2 /\ probe.pending = {}) => probe.shown = probe.issued


(***************************************************************************)
(* The fan-in by itself: the five requests settle in any order, each with  *)
(* an outcome fixed beforehand, and the results are folded.                *)
(***************************************************************************)
\* { data: [ {2024-01, null} ] }: an array is found, no point is numeric
HollowPayload ==
    JObj(<<Member("data", JArr(<<Point("2024-01", JNull)>>))>>)

\* What a request of field f can settle with.
OutcomesOf(f) ==
    {[status |-> "rejected", value |-> Undefined],
     [status |-> "fulfilled",
      value |-> IF f = "channels" THEN ChannelPayload ELSE SeriesPayload],
     [status |-> "fulfilled", value |-> HollowPayload]}

OutcomeVectors == {o \in [Fields -> UNION {OutcomesOf(f) : f \in Fields}] :
                      \A f \in Fields : o[f] \in OutcomesOf(f)}

PositionOf(f) == CHOOSE i \in 1..Len(TaskKeys) : TaskKeys[i] = f

\* The results come in the order the promises settled.
allSettledResults_completionOrder(order, outcome) ==
    [f \in Fields |-> outcome[order[PositionOf(f)]]]

\* Promise.allSettled(Object.values(tasks)) once all have settled, the
\* promises having settled in the order `order`: the result at index i is
\* that of the i-th promise passed in, and keys[i] is its field.
allSettledResults(order, outcome) == [f \in Fields |-> outcome[f]]

InitFanIn ==
    /\ store = <<>>
    /\ now = 0
    /\ limit = 0
    /\ windowMs = 1
    /\ log = <<>>
    /\ apiKey = "sw-key"
    /\ call = NoCall
    /\ fpc = "idle"
    /\ tasks = NoTasks
    /\ insights = NoInsights
    /\ response = NoResponse
    /\ client = NoHeaders
    /\ inflight = NoRequests
    /\ started = 0
    /\ admitted = NoneAdmitted
    /\ probe \in {[fn |-> "allSettled", outcome |-> o, order |-> <<>>] :
                  o \in OutcomeVectors}

\* The request of field f settles, after those in probe.order.
SettleNext(f) ==
    /\ probe.fn = "allSettled"
    /\ \A i \in 1..Len(probe.order) : probe.order[i] # f
    /\ probe' = [probe EXCEPT !.order = Append(@, f)]
    /\ UNCHANGED <<rateVars, fetchVars, response, routeVars>>

\* All five have settled: the await resumes and the result is built.
FoldSettled ==
    /\ probe.fn = "allSettled"
    /\ Len(probe.order) = Len(TaskKeys)
    /\ probe' = [fn |-> "fetchSimilarwebInsights",
                 outcome |-> probe.outcome,
                 order |-> probe.order,
                 out |-> buildInsights(allSettledResults(probe.order,
                                                         probe.outcome))]
    /\ UNCHANGED <<rateVars, fetchVars, response, routeVars>>

NextFanIn ==
    \/ \E f \in Fields : SettleNext(f)
    \/ FoldSettled

SpecFanIn == InitFanIn /\ [][NextFanIn]_vars

\* Field f of the outcome vector yields no data.
Unavailable(outcome, f) ==
    outcome[f].status = "rejected" \/ ~Parses(f, outcome[f].value)

\* The notes of the first n fields, in field order, for an outcome vector.
RECURSIVE NotesInFieldOrder(_, _)
NotesInFieldOrder(outcome, n) ==
    IF n = 0 THEN <<>>
    ELSE IF Unavailable(outcome, TaskKeys[n])
    THEN Append(NotesInFieldOrder(outcome, n - 1), NoteOf(TaskKeys[n]))
    ELSE NotesInFieldOrder(outcome, n - 1)

\* C26: the notes of a result are in the fixed field order visits,
\* bounceRate, pagesPerVisit, avgDuration, channels, whatever the order in
\* which the five requests complete or fail: the notes are a function of
\* the per-field outcomes alone, so two runs with the same outcomes and
\* different completion orders produce identical notes.
NotesOrderFixed ==
    probe.fn = "fetchSimilarwebInsights" =>
        probe.out.meta.notes = NotesInFieldOrder(probe.outcome, Len(TaskKeys))

\* The requests settled in the reverse of the field order, visits and
\* channels without data: the visits note still comes first.
NotesOrderWitness ==
    /\ probe.fn = "fetchSimilarwebInsights"
    /\ probe.order = <<"channels", "avgDuration", "pagesPerVisit",
                       "bounceRate", "visits">>
    /\ probe.outcome["visits"].status = "rejected"
    /\ probe.outcome["channels"].status = "fulfilled"
    /\ probe.out.meta.notes = <<NoteOf("visits"), NoteOf("channels")>>

Noted(data, f) ==
    \E i \in 1..Len(data.meta.notes) : data.meta.notes[i] = NoteOf(f)

\* C27: in every result each of the five fields is either populated or
\* reported, never both and never neither: a field's collection is empty
\* iff the notes contain that field's note, so the number of notes equals
\* the number of empty collections, and the result's collections are all
\* empty only when there are notes.
PopulatedXorNoted ==
    probe.fn = "fetchSimilarwebInsights" =>
        /\ \A f \in Fields :
              (Len(CollectionOf(probe.out, f)) = 0) <=> Noted(probe.out, f)
        /\ Len(probe.out.meta.notes) =
              Cardinality({f \in Fields : Len(CollectionOf(probe.out, f)) = 0})
        /\ (\A f \in Fields : Len(CollectionOf(probe.out, f)) = 0) =>
              Len(probe.out.meta.notes) > 0

\* A result with a failed request, a fulfilled one whose payload holds an
\* array without a numeric point, and populated fields beside them.
PopulatedXorNotedWitness ==
    /\ probe.fn = "fetchSimilarwebInsights"
    /\ \E f, g, h \in Fields :
          /\ probe.outcome[f].status = "rejected"
          /\ probe.outcome[g] = [status |-> "fulfilled", value |-> HollowPayload]
          /\ Noted(probe.out, f) /\ Noted(probe.out, g)
          /\ Len(CollectionOf(probe.out, h)) > 0
          /\ ~Noted(probe.out, h)

=============================================================================
